---- MODULE Spec2Model ----
(***************************************************************************)
(* Ticket-execution engine of constitutional-agent-test/executive_worker:  *)
(* the cycle controller (ExecutiveWorker.execute_ticket), the plan         *)
(* executor, the run journal, the shell retry loop and the basic edit      *)
(* engine.                                                                 *)
(***************************************************************************)
EXTENDS Integers, Sequences, FiniteSets, TLC

(***************************************************************************)
(* Bounds of the model                                                     *)
(***************************************************************************)
\* plan steps the plan generator hands out in a run followed for one cycle
MaxSteps == 3
\* plan steps the plan generator hands out, over all its cycles, in a run
\* followed for RichCycles cycles
MultiSteps == 2
RichCycles == 2

(***************************************************************************)
(* Program constants                                                       *)
(***************************************************************************)
MaxCyclesHigh == 100
MaxCyclesDefault == 50
MinStepsForCommit == 3
ShellMaxAttempts == 5

TicketIds == {"t-1", "t-2"}
Uuids == {"u1"}
Complexities == {"low", "medium", "high", "epic"}
Excs == {"E1", "E2"}
\* exceptions a plan step raises
StepExcs == {"E1"}
\* complexity classes drawn in runs whose plans are followed step by step
RichComplexities == {"low"}
StepKinds == {"search", "edit", "shell", "git", "validate", "other"}
TerminalStatuses == {"completed", "failed", "failed_max_cycles", "CRASHED"}

VARIABLES
    pc,                     \* position of execute_ticket
    ticket_id,              \* Ticket.ticket_id of the ticket being executed
    complexity,             \* deep_plan.estimated_complexity
    run_log,                \* the RunLog object held by execute_ticket
    current_run_filename,   \* self._current_run_filename
    runs,                   \* the runs directory: file name -> file content
    cycle_count,            \* local cycle_count
    ready,                  \* local ready
    plan,                   \* the plan of the current cycle
    step_i,                 \* number of plan steps already dispatched
    commands,               \* local list `commands` of the plan executor
    validation,             \* local validation of the current cycle
    cycle_git,              \* version-control activity of the current cycle
    propagated,             \* the exception that left execute_ticket
    steps_left,             \* plan steps the generator may still hand out
    cycle_cap,              \* number of cycles of this run that are followed
    done_cmds,              \* number of run_log.commands at the end of the last completed cycle
    \* _execute_shell_with_recovery
    sh_pc,                  \* position of the retry loop
    sh_caller,              \* who called: the plan executor's shell step, or a direct caller
    sh_enhanced,            \* self.use_enhanced and self.error_handler
    sh_max,                 \* parameter max_attempts
    sh_attempt,             \* loop variable attempt
    sh_cmd,                 \* local cmd (rewritten between attempts)
    sh_last,                \* local last_result
    sh_ret,                 \* the returned CommandResult
    sh_runs,                \* the results of the calls of self.shell.run, in call order
    sh_exc,                 \* the exception that left the function
    \* EditEngine.apply_edits
    ed_pc,                  \* position of apply_edits
    ed_files,               \* the workspace: path -> bytes of the file, or Absent
    ed_files0,              \* the workspace when apply_edits was called
    ed_batch,               \* parameter edits
    ed_i,                   \* number of edits of the batch already handled
    ed_backups,             \* local list backups
    \* one call of a function of the engine that is analysed on its own
    call_pc,                \* position of the call
    call_args,              \* its arguments and what its collaborators answer
    call_locals,            \* its local variables
    call_ret                \* what it returned

ctrlVars == <<pc, ticket_id, complexity, run_log, current_run_filename, runs,
              cycle_count, ready, plan, step_i, commands, validation, cycle_git,
              propagated, steps_left, cycle_cap, done_cmds>>
shellVars == <<sh_pc, sh_caller, sh_enhanced, sh_max, sh_attempt, sh_cmd, sh_last,
               sh_ret, sh_runs, sh_exc>>
editVars == <<ed_pc, ed_files, ed_files0, ed_batch, ed_i, ed_backups>>
callVars == <<call_pc, call_args, call_locals, call_ret>>
vars == <<ctrlVars, shellVars, editVars, callVars>>

(***************************************************************************)
(* Data model (models.py)                                                  *)
(***************************************************************************)
NoError == [kind |-> "none", exc |-> "-"]
NoValidation == [set |-> FALSE, compiled |-> FALSE, passed |-> FALSE]
NoFile == [task |-> "-", uuid |-> "-", stamp |-> 0]
\* edit_commit: an edit step issued git add/commit; status_dirty: git status
\* was asked by commit_and_push and reported changes; cycle_commit:
\* commit_and_push issued git add/commit/push
NoGit == [edit_commit |-> FALSE, status_dirty |-> FALSE, cycle_commit |-> FALSE]

\* CommandResult(cmd, exit_code, stdout, stderr, duration_ms)
CommandResult(cmd, exit_code, stderr) ==
    [cmd |-> cmd, exit_code |-> exit_code, stderr |-> stderr]

\* RunLog before _initialize_run_log has run
NoLog ==
    [run_id |-> "-", task_id |-> "-", status |-> "uninit", error |-> NoError,
     end_ts |-> FALSE, plan_steps |-> 0, current_step |-> 0,
     commands |-> <<>>, commits |-> <<>>, validation |-> NoValidation,
     deep_plan |-> "-", complete |-> TRUE]

\* a run log created without the deep plan
NewRunLogWithoutPlan(tid, uuid, cx) ==
    [NoLog EXCEPT !.run_id = uuid, !.task_id = tid, !.status = "in_progress"]

\* RunLog(run_id, task_id, start_ts, status="in_progress", deep_plan)
NewRunLog(tid, uuid, cx) ==
    [NoLog EXCEPT !.run_id = uuid, !.task_id = tid, !.status = "in_progress",
                  !.deep_plan = cx]

\* a cycle budget that does not depend on the complexity
MaxCyclesFlat(cx) == MaxCyclesDefault

\* max_cycles = 100 if deep_plan.estimated_complexity in ["high", "epic"] else 50
MaxCyclesOf(cx) == IF cx \in {"high", "epic"} THEN MaxCyclesHigh ELSE MaxCyclesDefault

(***************************************************************************)
(* Run journal                                                             *)
(***************************************************************************)
\* a file name made of the time prefix and the task id alone
RunFilenameOfTask(rl) == [task |-> rl.task_id, uuid |-> "-", stamp |-> 0]

\* file name chosen by _initialize_run_log: time prefix, task id, short uuid
RunFilename(rl) == [task |-> rl.task_id, uuid |-> rl.run_id, stamp |-> 0]

\* a file name computed anew at every write, as _write_run_json does
JournalPathPerWrite(fname, rl) == [fname EXCEPT !.stamp = Len(rl.commands) + 1]

\* path = os.path.join(runs_dir, self._current_run_filename)
JournalPath(fname, rl) == fname

\* with open(path, "w") as f: json.dump(run_log, f, ...)
WritePartialRunLog(dir, fname, rl) ==
    (JournalPath(fname, rl) :> rl) @@ dir

\* what a write leaves behind when the process dies between open(path, "w")
\* and the close of the file: the file exists, its old content is gone
TornWrite(dir, fname, rl) ==
    (JournalPath(fname, rl) :> [NoLog EXCEPT !.complete = FALSE]) @@ dir


(***************************************************************************)
(* Cycle controller: ExecutiveWorker.execute_ticket                        *)
(***************************************************************************)
NoExc == [exc |-> "-", stage |-> "-"]
EmptyDir == [f \in {} |-> NoLog]

\* plans the generator may return: sequences of step kinds of length 0..n
PlansUpTo(n) == UNION {[1..k -> StepKinds] : k \in 0..n}

Min(a, b) == IF a < b THEN a ELSE b

\* def _extract_commit_sha(self, output): return ""
ExtractCommitSha(out) == ""

\* a policy that classifies every step exception as fatal
IsFatalErrorAlways(e) == TRUE

\* def _is_fatal_error(self, error): return False
IsFatalError(e) == FALSE

\* a commit gate that leaves out the test result
ShouldCommitIgnoringTests(v, step_results) ==
    v.compiled /\ Len(step_results) >= MinStepsForCommit

\* a gate that counts the results with exit code 0 only
ShouldCommitOnSuccesses(v, step_results) ==
    /\ v.compiled /\ v.passed
    /\ Cardinality({k \in 1..Len(step_results) : step_results[k].exit_code = 0})
           >= MinStepsForCommit

\* should_commit of execute_ticket
ShouldCommit(v, step_results) ==
    v.compiled /\ v.passed /\ Len(step_results) >= MinStepsForCommit

\* check_ready_to_submit(ticket, validation, deep_plan); semantic is the
\* result of validate_against_success_criteria
CheckReadyToSubmit(v, semantic) ==
    IF ~v.compiled THEN FALSE
    ELSE IF ~v.passed THEN FALSE
    ELSE semantic

\* the parts of the model a specification does not exercise stay idle
Absent == <<"<absent>">>
\* None, where a CommandResult of the shell is expected
NoResult == [cmd |-> <<>>, exit_code |-> 0, err |-> {}, call |-> 0, raised |-> FALSE]

ShellIdle ==
    /\ sh_pc = "idle" /\ sh_caller = "-" /\ sh_enhanced = FALSE
    /\ sh_max = 0 /\ sh_attempt = 0 /\ sh_cmd = <<>>
    /\ sh_last = NoResult /\ sh_ret = NoResult /\ sh_runs = <<>> /\ sh_exc = "-"

EditIdle ==
    /\ ed_pc = "idle" /\ ed_files = [p \in {} |-> Absent]
    /\ ed_files0 = [p \in {} |-> Absent]
    /\ ed_batch = <<>> /\ ed_i = 0 /\ ed_backups = <<>>

CallIdle ==
    /\ call_pc = "idle" /\ call_args = <<>> /\ call_locals = <<>> /\ call_ret = <<>>

CtrlIdle ==
    /\ pc = "idle" /\ ticket_id = "-" /\ complexity = "-" /\ run_log = NoLog
    /\ current_run_filename = NoFile /\ runs = EmptyDir /\ cycle_count = 0
    /\ ready = FALSE /\ plan = <<>> /\ step_i = 0 /\ commands = <<>>
    /\ validation = NoValidation /\ cycle_git = NoGit /\ propagated = NoExc
    /\ steps_left = 0 /\ cycle_cap = 0 /\ done_cmds = 0

Init ==
    /\ ShellIdle /\ EditIdle /\ CallIdle
    /\ pc = "deep_plan"
    /\ ticket_id \in TicketIds
    /\ complexity = "-"
    /\ run_log = NoLog
    /\ current_run_filename = NoFile
    /\ runs = EmptyDir
    /\ cycle_count = 0
    /\ ready = FALSE
    /\ plan = <<>>
    /\ step_i = 0
    /\ commands = <<>>
    /\ validation = NoValidation
    /\ cycle_git = NoGit
    /\ propagated = NoExc
    /\ \/ steps_left = MaxSteps /\ cycle_cap = 1
       \/ steps_left = MultiSteps /\ cycle_cap = RichCycles
       \/ steps_left = 0 /\ cycle_cap = MaxCyclesHigh
    /\ done_cmds = 0

\* an exception leaves execute_ticket before the try block is entered
RaiseBeforeTry(e) ==
    /\ propagated' = [exc |-> e, stage |-> pc]
    /\ pc' = "raised"
    /\ UNCHANGED <<ticket_id, complexity, run_log, current_run_filename, runs,
                   cycle_count, ready, plan, step_i, commands, validation,
                   cycle_git, steps_left, cycle_cap, done_cmds>>

\* deep_plan = self.analyze_requirements_and_plan(ticket)
AnalyzeRequirementsAndPlan ==
    /\ UNCHANGED <<shellVars, editVars, callVars>>
    /\ pc = "deep_plan"
    /\ \E cx \in (IF steps_left > 0 THEN RichComplexities ELSE Complexities) :
         complexity' = cx
    /\ pc' = "load_tree"
    /\ UNCHANGED <<ticket_id, run_log, current_run_filename, runs, cycle_count,
                   ready, plan, step_i, commands, validation, cycle_git,
                   propagated, steps_left, cycle_cap, done_cmds>>

\* the workspace summary of the deep planner raises
DeepPlanRaises ==
    /\ UNCHANGED <<shellVars, editVars, callVars>>
    /\ pc = "deep_plan"
    /\ \E e \in Excs : RaiseBeforeTry(e)

\* self.task_tree = TaskTree.load_or_create(root, ticket_id, title, deep_plan)
LoadTaskTree ==
    /\ UNCHANGED <<shellVars, editVars, callVars>>
    /\ pc = "load_tree"
    /\ pc' = "init_log"
    /\ UNCHANGED <<ticket_id, complexity, run_log, current_run_filename, runs,
                   cycle_count, ready, plan, step_i, commands, validation,
                   cycle_git, propagated, steps_left, cycle_cap, done_cmds>>

\* load_or_create raises: the definition of task_tree.py takes three
\* arguments and the call passes four (TypeError), or saving the tree fails
LoadTaskTreeRaises ==
    /\ UNCHANGED <<shellVars, editVars, callVars>>
    /\ pc = "load_tree"
    /\ \E e \in Excs : RaiseBeforeTry(e)

\* run_log = self._initialize_run_log(ticket, deep_plan)
InitializeRunLog ==
    /\ UNCHANGED <<shellVars, editVars, callVars>>
    /\ pc = "init_log"
    /\ \E u \in Uuids :
         /\ run_log' = NewRunLog(ticket_id, u, complexity)
         /\ current_run_filename' = RunFilename(NewRunLog(ticket_id, u, complexity))
    /\ pc' = "first_write"
    /\ UNCHANGED <<ticket_id, complexity, runs, cycle_count, ready, plan,
                   step_i, commands, validation, cycle_git, propagated,
                   steps_left, cycle_cap, done_cmds>>

\* self._write_partial_run_log(run_log)  # Write initial state
WriteInitialState ==
    /\ UNCHANGED <<shellVars, editVars, callVars>>
    /\ pc = "first_write"
    /\ runs' = WritePartialRunLog(runs, current_run_filename, run_log)
    /\ pc' = "loop"
    /\ UNCHANGED <<ticket_id, complexity, run_log, current_run_filename,
                   cycle_count, ready, plan, step_i, commands, validation,
                   cycle_git, propagated, steps_left, cycle_cap, done_cmds>>

\* while not ready and cycle_count < max_cycles: cycle_count += 1
LoopEnter ==
    /\ UNCHANGED <<shellVars, editVars, callVars>>
    /\ pc = "loop"
    /\ ~ready /\ cycle_count < MaxCyclesOf(complexity)
    /\ cycle_count < cycle_cap
    /\ cycle_count' = cycle_count + 1
    /\ pc' = "select_focus"
    /\ plan' = <<>> /\ step_i' = 0 /\ commands' = <<>>
    /\ validation' = NoValidation /\ cycle_git' = NoGit
    /\ UNCHANGED <<ticket_id, complexity, run_log, current_run_filename, runs,
                   ready, propagated, steps_left, cycle_cap, done_cmds>>

\* the loop condition is false
LoopExit ==
    /\ UNCHANGED <<shellVars, editVars, callVars>>
    /\ pc = "loop"
    /\ ~(~ready /\ cycle_count < MaxCyclesOf(complexity))
    /\ pc' = "finalize"
    /\ UNCHANGED <<ticket_id, complexity, run_log, current_run_filename, runs,
                   cycle_count, ready, plan, step_i, commands, validation,
                   cycle_git, propagated, steps_left, cycle_cap, done_cmds>>


\* execute_ticket is left: the locals of the cycle are gone
FrameLeft ==
    /\ plan' = <<>> /\ step_i' = 0 /\ commands' = <<>>
    /\ validation' = NoValidation /\ cycle_git' = NoGit
    /\ steps_left' = 0

\* an except branch that leaves end_ts unset
CrashedLogNoEndTs(rl, e) ==
    [rl EXCEPT !.status = "CRASHED", !.error = [kind |-> "crash", exc |-> e]]

\* except Exception as e: status CRASHED, error, end_ts, journal write, raise e
CrashedLog(rl, e) ==
    [rl EXCEPT !.status = "CRASHED",
               !.error = [kind |-> "crash", exc |-> e],
               !.end_ts = TRUE]

ExceptHandler(e) ==
    /\ run_log' = CrashedLog(run_log, e)
    /\ runs' = WritePartialRunLog(runs, current_run_filename, CrashedLog(run_log, e))
    /\ propagated' = [exc |-> e, stage |-> pc]
    /\ pc' = "raised"
    /\ FrameLeft
    /\ UNCHANGED <<ticket_id, complexity, current_run_filename, cycle_count,
                   ready, cycle_cap, done_cmds>>

\* eoi = self.pick_eoi_optional(ticket); run_log.eoi = eoi; journal write
SelectFocus ==
    /\ UNCHANGED <<shellVars, editVars, callVars>>
    /\ pc = "select_focus"
    /\ runs' = WritePartialRunLog(runs, current_run_filename, run_log)
    /\ pc' = "gen_plan"
    /\ UNCHANGED <<ticket_id, complexity, run_log, current_run_filename,
                   cycle_count, ready, plan, step_i, commands, validation,
                   cycle_git, propagated, steps_left, cycle_cap, done_cmds>>

SelectFocusRaises ==
    /\ UNCHANGED <<shellVars, editVars, callVars>>
    /\ pc = "select_focus"
    /\ \E e \in Excs : ExceptHandler(e)

\* prompt = self.generate_system_prompt(...); plan = self.plan_current_cycle(prompt)
\* run_log.plan_steps = len(plan); journal write
GeneratePlan ==
    /\ UNCHANGED <<shellVars, editVars, callVars>>
    /\ pc = "gen_plan"
    /\ \E p \in PlansUpTo(steps_left) :
         /\ plan' = p
         /\ steps_left' = steps_left - Len(p)
         /\ run_log' = [run_log EXCEPT !.plan_steps = Len(p)]
         /\ runs' = WritePartialRunLog(runs, current_run_filename,
                                       [run_log EXCEPT !.plan_steps = Len(p)])
    /\ step_i' = 0
    /\ commands' = <<>>
    /\ pc' = "execute"
    /\ UNCHANGED <<ticket_id, complexity, current_run_filename, cycle_count,
                   ready, validation, cycle_git, propagated, cycle_cap,
                   done_cmds>>

GeneratePlanRaises ==
    /\ UNCHANGED <<shellVars, editVars, callVars>>
    /\ pc = "gen_plan"
    /\ \E e \in Excs : ExceptHandler(e)

(***************************************************************************)
(* Plan executor: _execute_plan_with_incremental_logging                   *)
(***************************************************************************)
\* exit codes a step of the given kind can record when it does not raise
ExitCodesOf(kind) ==
    IF kind \in {"shell", "validate"} THEN {0, 1} ELSE {0}

\* a history that takes the newest result at its front
LogAfterCommandFirst(rl, res, i) ==
    [rl EXCEPT !.commands = <<res>> \o rl.commands, !.current_step = i + 1]

\* run_log.commands.append(commands[-1]); run_log.current_step = i + 1
LogAfterCommand(rl, res, i) ==
    [rl EXCEPT !.commands = Append(rl.commands, res), !.current_step = i + 1]

\* an except branch that starts the history afresh with the error result
LogStepErrorOnly(rl, res, e) ==
    [rl EXCEPT !.commands = <<res>>,
               !.error = [kind |-> "step", exc |-> e],
               !.status = "failed"]

\* the except branch of the step loop
LogStepError(rl, res, e) ==
    [rl EXCEPT !.commands = Append(rl.commands, res),
               !.error = [kind |-> "step", exc |-> e],
               !.status = "failed"]

\* sha = self._extract_commit_sha(commit_out); if sha: run_log.commits.append(sha)
RecordEditCommit(rl, out) ==
    IF ExtractCommitSha(out) # ""
    THEN [rl EXCEPT !.commits = Append(rl.commits, ExtractCommitSha(out))]
    ELSE rl

\* a search, edit, shell, git or validate step runs to its end
StepCompletes ==
    /\ UNCHANGED <<shellVars, editVars, callVars>>
    /\ pc = "execute"
    /\ step_i < Len(plan)
    /\ plan[step_i + 1] # "other"
    /\ \E code \in ExitCodesOf(plan[step_i + 1]) :
         LET kind == plan[step_i + 1]
             res == CommandResult(kind, code, "")
             rl1 == IF kind = "edit" THEN RecordEditCommit(run_log, "out") ELSE run_log
             rl2 == LogAfterCommand(rl1, res, step_i)
         IN /\ commands' = Append(commands, res)
            /\ run_log' = rl2
            /\ runs' = WritePartialRunLog(runs, current_run_filename, rl2)
            /\ cycle_git' = IF kind = "edit"
                            THEN [cycle_git EXCEPT !.edit_commit = TRUE]
                            ELSE cycle_git
    /\ step_i' = step_i + 1
    /\ UNCHANGED <<pc, ticket_id, complexity, current_run_filename, cycle_count,
                   ready, plan, validation, propagated, steps_left, cycle_cap, done_cmds>>

\* the step raises before it has appended a result
StepRaises ==
    /\ UNCHANGED <<shellVars, editVars, callVars>>
    /\ pc = "execute"
    /\ step_i < Len(plan)
    /\ plan[step_i + 1] # "other"
    /\ \E e \in StepExcs :
         LET res == CommandResult("description", -1, e)
             rl2 == LogStepError(run_log, res, e)
         IN /\ commands' = Append(commands, res)
            /\ run_log' = rl2
            /\ runs' = WritePartialRunLog(runs, current_run_filename, rl2)
            /\ IF IsFatalError(e)
               THEN step_i' = Len(plan)
               ELSE step_i' = step_i + 1
    /\ UNCHANGED <<pc, ticket_id, complexity, current_run_filename, cycle_count,
                   ready, plan, validation, cycle_git, propagated, steps_left,
                   cycle_cap, done_cmds>>

\* an edit step whose batch was applied (result appended to commands) and
\* whose git add / git commit then raises
EditCommitRaises ==
    /\ UNCHANGED <<shellVars, editVars, callVars>>
    /\ pc = "execute"
    /\ step_i < Len(plan)
    /\ plan[step_i + 1] = "edit"
    /\ \E e \in StepExcs :
         LET ok == CommandResult("edit", 0, "")
             res == CommandResult("description", -1, e)
             rl2 == LogStepError(run_log, res, e)
         IN /\ commands' = Append(Append(commands, ok), res)
            /\ run_log' = rl2
            /\ runs' = WritePartialRunLog(runs, current_run_filename, rl2)
            /\ IF IsFatalError(e)
               THEN step_i' = Len(plan)
               ELSE step_i' = step_i + 1
    /\ UNCHANGED <<pc, ticket_id, complexity, current_run_filename, cycle_count,
                   ready, plan, validation, cycle_git, propagated, steps_left,
                   cycle_cap, done_cmds>>

\* an executor that treats a kind it does not know as a failed step
StepSkippedAsFailure ==
    /\ UNCHANGED <<shellVars, editVars, callVars>>
    /\ pc = "execute"
    /\ step_i < Len(plan)
    /\ plan[step_i + 1] = "other"
    /\ LET res == CommandResult("description", -1, "E1")
           rl2 == LogStepError(run_log, res, "E1")
       IN /\ commands' = Append(commands, res)
          /\ run_log' = rl2
          /\ runs' = WritePartialRunLog(runs, current_run_filename, rl2)
    /\ step_i' = step_i + 1
    /\ UNCHANGED <<pc, ticket_id, complexity, current_run_filename, cycle_count,
                   ready, plan, validation, cycle_git, propagated, steps_left,
                   cycle_cap, done_cmds>>

\* else: continue  (a kind the executor does not know)
StepSkipped ==
    /\ UNCHANGED <<shellVars, editVars, callVars>>
    /\ pc = "execute"
    /\ step_i < Len(plan)
    /\ plan[step_i + 1] = "other"
    /\ step_i' = step_i + 1
    /\ UNCHANGED <<pc, ticket_id, complexity, run_log, current_run_filename,
                   runs, cycle_count, ready, plan, commands, validation,
                   cycle_git, propagated, steps_left, cycle_cap, done_cmds>>

\* return commands  (plan and the loop index are not used after the return)
PlanReturn ==
    /\ UNCHANGED <<shellVars, editVars, callVars>>
    /\ pc = "execute"
    /\ step_i = Len(plan)
    /\ pc' = "validate"
    /\ plan' = <<>>
    /\ step_i' = 0
    /\ UNCHANGED <<ticket_id, complexity, run_log, current_run_filename, runs,
                   cycle_count, ready, commands, validation,
                   cycle_git, propagated, steps_left, cycle_cap, done_cmds>>


(***************************************************************************)
(* Cycle controller, second half of a cycle                                *)
(***************************************************************************)
\* validation = self.validate_changes(); run_log.validation = validation; write
ValidateChanges ==
    /\ UNCHANGED <<shellVars, editVars, callVars>>
    /\ pc = "validate"
    /\ \E c \in BOOLEAN, t \in BOOLEAN :
         LET v == [set |-> TRUE, compiled |-> c, passed |-> t]
         IN /\ validation' = v
            /\ run_log' = [run_log EXCEPT !.validation = v]
            /\ runs' = WritePartialRunLog(runs, current_run_filename,
                                          [run_log EXCEPT !.validation = v])
    /\ pc' = "update_tree"
    /\ UNCHANGED <<ticket_id, complexity, current_run_filename, cycle_count,
                   ready, plan, step_i, commands, cycle_git, propagated,
                   steps_left, cycle_cap, done_cmds>>

ValidateChangesRaises ==
    /\ UNCHANGED <<shellVars, editVars, callVars>>
    /\ pc = "validate"
    /\ \E e \in Excs : ExceptHandler(e)

\* self.update_task_tree(ticket, step_results, validation)
UpdateTaskTree ==
    /\ UNCHANGED <<shellVars, editVars, callVars>>
    /\ pc = "update_tree"
    /\ pc' = "commit"
    /\ UNCHANGED <<ticket_id, complexity, run_log, current_run_filename, runs,
                   cycle_count, ready, plan, step_i, commands, validation,
                   cycle_git, propagated, steps_left, cycle_cap, done_cmds>>

UpdateTaskTreeRaises ==
    /\ UNCHANGED <<shellVars, editVars, callVars>>
    /\ pc = "update_tree"
    /\ \E e \in Excs : ExceptHandler(e)

\* commit_and_push: status = self.git.status(); if status.strip(): add_all,
\* commit, push, return self._extract_commit_sha(out); else return ""
CommitAndPush(dirty) == IF dirty THEN ExtractCommitSha("out") ELSE ""

\* whether commit_and_push runs git add -A, git commit and git push
CommitIssued(dirty) == dirty

\* if should_commit: commit_sha = self.commit_and_push(ticket); if commit_sha:
\* run_log.commits.append(commit_sha); journal write
MaybeCommit ==
    /\ UNCHANGED <<shellVars, editVars, callVars>>
    /\ pc = "commit"
    /\ \E dirty \in BOOLEAN :
         LET gate == ShouldCommit(validation, commands)
             sha == CommitAndPush(dirty)
             rl2 == [run_log EXCEPT !.commits = Append(run_log.commits, sha)]
         IN /\ cycle_git' = IF gate
                            THEN [cycle_git EXCEPT !.status_dirty = dirty,
                                                   !.cycle_commit = CommitIssued(dirty)]
                            ELSE cycle_git
            /\ IF gate /\ sha # ""
               THEN /\ run_log' = rl2
                    /\ runs' = WritePartialRunLog(runs, current_run_filename, rl2)
               ELSE UNCHANGED <<run_log, runs>>
    /\ pc' = "check_ready"
    /\ UNCHANGED <<ticket_id, complexity, current_run_filename, cycle_count,
                   ready, plan, step_i, commands, validation, propagated,
                   steps_left, cycle_cap, done_cmds>>

\* a git call of commit_and_push raises
MaybeCommitRaises ==
    /\ UNCHANGED <<shellVars, editVars, callVars>>
    /\ pc = "commit"
    /\ ShouldCommit(validation, commands)
    /\ \E e \in Excs : ExceptHandler(e)

\* ready = self.check_ready_to_submit(ticket, validation, deep_plan)
CheckReady ==
    /\ UNCHANGED <<shellVars, editVars, callVars>>
    /\ pc = "check_ready"
    /\ \E semantic \in BOOLEAN : ready' = CheckReadyToSubmit(validation, semantic)
    /\ done_cmds' = Len(run_log.commands)
    /\ pc' = "loop"
    /\ UNCHANGED <<ticket_id, complexity, run_log, current_run_filename, runs,
                   cycle_count, plan, step_i, commands, validation, cycle_git,
                   propagated, steps_left, cycle_cap>>

\* a final status that looks at the cycle counter only
FinalLogByBudget(rl, cycles, max_cycles, rdy) ==
    IF cycles >= max_cycles
    THEN [rl EXCEPT !.status = "failed_max_cycles",
                    !.error = [kind |-> "max_cycles", exc |-> "-"],
                    !.end_ts = TRUE]
    ELSE [rl EXCEPT !.status = "completed", !.end_ts = TRUE]

\* the statements after the loop: terminal status, end_ts, final journal write
FinalLog(rl, cycles, max_cycles, rdy) ==
    IF cycles >= max_cycles /\ ~rdy
    THEN [rl EXCEPT !.status = "failed_max_cycles",
                    !.error = [kind |-> "max_cycles", exc |-> "-"],
                    !.end_ts = TRUE]
    ELSE [rl EXCEPT !.status = "completed", !.end_ts = TRUE]

Finalize ==
    /\ UNCHANGED <<shellVars, editVars, callVars>>
    /\ pc = "finalize"
    /\ LET rl2 == FinalLog(run_log, cycle_count, MaxCyclesOf(complexity), ready)
       IN /\ run_log' = rl2
          /\ runs' = WritePartialRunLog(runs, current_run_filename, rl2)
    /\ pc' = "returned"
    /\ FrameLeft
    /\ UNCHANGED <<ticket_id, complexity, current_run_filename, cycle_count,
                   ready, propagated, cycle_cap, done_cmds>>

(***************************************************************************)
(* The process is killed                                                   *)
(***************************************************************************)
\* the memory of the process is gone, the runs directory stays
ProcessGone ==
    /\ pc' = "killed"
    /\ run_log' = NoLog
    /\ cycle_count' = 0 /\ ready' = FALSE
    /\ plan' = <<>> /\ step_i' = 0 /\ commands' = <<>>
    /\ validation' = NoValidation /\ cycle_git' = NoGit
    /\ steps_left' = 0
    /\ UNCHANGED <<ticket_id, complexity, current_run_filename, propagated,
                   cycle_cap, done_cmds>>

RunningPcs == {"first_write", "loop", "select_focus", "gen_plan", "execute",
               "validate", "update_tree", "commit", "check_ready", "finalize"}

\* positions whose next statement sequence ends in a journal write
WritingPcs == {"first_write", "select_focus", "gen_plan", "validate", "finalize"}

\* killed between two statements
Kill ==
    /\ UNCHANGED <<shellVars, editVars, callVars>>
    /\ pc \in RunningPcs
    /\ ProcessGone
    /\ UNCHANGED runs

\* killed inside _write_partial_run_log, after open(path, "w") truncated the
\* file and before the JSON text reached it
KillDuringWrite ==
    /\ UNCHANGED <<shellVars, editVars, callVars>>
    /\ pc \in WritingPcs
    /\ ProcessGone
    /\ runs' = TornWrite(runs, current_run_filename, run_log)

Next ==
    \/ AnalyzeRequirementsAndPlan
    \/ DeepPlanRaises
    \/ LoadTaskTree
    \/ LoadTaskTreeRaises
    \/ InitializeRunLog
    \/ WriteInitialState
    \/ LoopEnter
    \/ LoopExit
    \/ SelectFocus
    \/ SelectFocusRaises
    \/ GeneratePlan
    \/ GeneratePlanRaises
    \/ StepCompletes
    \/ StepRaises
    \/ EditCommitRaises
    \/ StepSkipped
    \/ PlanReturn
    \/ ValidateChanges
    \/ ValidateChangesRaises
    \/ UpdateTaskTree
    \/ UpdateTaskTreeRaises
    \/ MaybeCommit
    \/ MaybeCommitRaises
    \/ CheckReady
    \/ Finalize
    \/ Kill
    \/ KillDuringWrite

Spec == Init /\ [][Next]_vars

\* the steps of execute_ticket when every call it makes returns and the
\* process is not killed
NextReturns ==
    \/ AnalyzeRequirementsAndPlan
    \/ LoadTaskTree
    \/ InitializeRunLog
    \/ WriteInitialState
    \/ LoopEnter
    \/ LoopExit
    \/ SelectFocus
    \/ GeneratePlan
    \/ StepCompletes
    \/ StepSkipped
    \/ PlanReturn
    \/ ValidateChanges
    \/ UpdateTaskTree
    \/ MaybeCommit
    \/ CheckReady
    \/ Finalize

\* execute_ticket is sequential code: while a statement can run, it runs
SpecReturns == Init /\ [][NextReturns]_vars /\ WF_vars(NextReturns)


(***************************************************************************)
(* Properties of the cycle controller and the run journal                  *)
(***************************************************************************)
ReturnedOrRaised == pc \in {"returned", "raised"}

LoopStages == {"select_focus", "gen_plan", "execute", "validate",
               "update_tree", "commit", "check_ready"}

JournalWritten == current_run_filename \in DOMAIN runs

\* C1: once execute_ticket has returned or raised, exactly one journal
\* artifact exists; its task_id is the ticket id and its status is one of
\* completed, failed, failed_max_cycles, CRASHED.
C1_OneTerminalArtifact ==
    ReturnedOrRaised =>
        \E f \in DOMAIN runs :
            /\ runs[f].task_id = ticket_id
            /\ runs[f].status \in TerminalStatuses
            /\ \A g \in DOMAIN runs : g = f

\* C2: within one run every journal write targets the file name chosen by
\* _initialize_run_log and every snapshot carries the run_id of that run, so
\* the runs directory never holds a second artifact of the run.
C2_StableJournalFile ==
    /\ DOMAIN runs \subseteq {current_run_filename}
    /\ \A f \in DOMAIN runs :
          /\ f.task = ticket_id
          /\ runs[f].complete => /\ runs[f].run_id = f.uuid
                                 /\ runs[f].run_id \in Uuids

C2_Witness ==
    /\ pc = "returned"
    /\ Len(run_log.commands) >= 2
    /\ DOMAIN runs = {current_run_filename}
    /\ runs[current_run_filename] = run_log

\* C3: in the journal snapshots of a run a status other than in_progress,
\* once written, is never replaced by a different value.
C3_StatusWrittenOnce ==
    [][\A f \in DOMAIN runs :
          (runs[f].complete /\ runs[f].status # "in_progress") =>
              (f \in DOMAIN runs' /\ (runs'[f].complete => runs'[f].status = runs[f].status))]_vars

\* C6 (as claimed): a cycle produces a version-control commit if and only if
\* its validation compiled, its tests passed and at least 3 steps produced a
\* result.
C6_CommitIffGate ==
    pc = "check_ready" =>
        ((cycle_git.edit_commit \/ cycle_git.cycle_commit)
            <=> (validation.compiled /\ validation.passed /\ Len(commands) >= 3))

\* C6 (amended): the end-of-cycle commit is issued if and only if validation
\* compiled, tests passed, the executor returned at least 3 results and git
\* status reported pending changes.
C6_CycleCommitIffGateAndDirty ==
    pc = "check_ready" =>
        (cycle_git.cycle_commit
            <=> (/\ validation.compiled
                 /\ validation.passed
                 /\ Len(commands) >= 3
                 /\ cycle_git.status_dirty))

C6_Witness ==
    /\ pc = "check_ready"
    /\ cycle_git.cycle_commit
    /\ Len(commands) >= 3

\* C7: when an exception leaves a stage of the cycle loop, the run log gets
\* status CRASHED, the error text of that exception and end_ts, the journal
\* holds exactly this run log, and the exception is raised to the caller.
C7_CrashJournaled ==
    (pc = "raised" /\ propagated.stage \in LoopStages) =>
        /\ run_log.status = "CRASHED"
        /\ run_log.end_ts
        /\ propagated.exc \in Excs
        /\ run_log.error = [kind |-> "crash", exc |-> propagated.exc]
        /\ JournalWritten
        /\ runs[current_run_filename] = run_log

C7_Witness ==
    /\ pc = "raised"
    /\ propagated.stage = "update_tree"
    /\ propagated.exc = "E2"
    /\ Len(run_log.commands) > 0
    /\ runs[current_run_filename].status = "CRASHED"

\* C8: after a kill at any point after the run log was initialised, the
\* journal file is a complete snapshot holding every CommandResult of the
\* cycles completed before the kill.
C8_KillLeavesCompleteSnapshot ==
    pc = "killed" =>
        /\ JournalWritten
        /\ runs[current_run_filename].complete
        /\ Len(runs[current_run_filename].commands) >= done_cmds

\* C9: when a plan step raises, the executor does not raise; it appends a
\* CommandResult with exit code -1 and the exception text as stderr to the
\* run log, writes the journal and moves on to the next step.
C9_StepFailureIsolated ==
    [][(StepRaises \/ EditCommitRaises) =>
          /\ pc' = "execute"
          /\ propagated' = NoExc
          /\ step_i' = step_i + 1
          /\ Len(run_log'.commands) = Len(run_log.commands) + 1
          /\ run_log'.commands[Len(run_log'.commands)].exit_code = -1
          /\ run_log'.commands[Len(run_log'.commands)].stderr \in StepExcs
          /\ commands'[Len(commands')] = run_log'.commands[Len(run_log'.commands)]
          /\ runs'[current_run_filename] = run_log']_vars

C9_Witness ==
    /\ pc = "execute"
    /\ Len(commands) = 2
    /\ commands[1].exit_code = -1
    /\ commands[2].exit_code = 0
    /\ runs[current_run_filename].commands = commands


\* C11: a run that returns without any cycle having reported readiness has
\* run exactly max_cycles cycles (100 for complexity high or epic, 50
\* otherwise); its status is failed_max_cycles, its error is set, and the
\* journal holds that log.
C11_BudgetExhausted ==
    (pc = "returned" /\ ~ready) =>
        /\ cycle_count = IF complexity \in {"high", "epic"} THEN 100 ELSE 50
        /\ run_log.status = "failed_max_cycles"
        /\ run_log.error = [kind |-> "max_cycles", exc |-> "-"]
        /\ runs[current_run_filename] = run_log

\* an epic ticket whose hundred cycles all ended not ready
C11_Witness ==
    /\ pc = "returned" /\ ~ready
    /\ complexity = "epic"
    /\ cycle_count = 100
    /\ run_log.status = "failed_max_cycles"

\* C15: when the first cycle's validation reports compiled and tests passed
\* and the semantic check reports completion, execute_ticket leaves the loop
\* without a second cycle and returns with status completed and end_ts set,
\* and the run log's command list is the list of step results of that
\* cycle, in the order of the plan.
C15_FirstCycleReady ==
    [][/\ (pc = "loop" /\ ready /\ cycle_count = 1) =>
              pc' \in {"finalize", "killed"}
       /\ (pc = "finalize" /\ ready /\ cycle_count = 1 /\ pc' = "returned") =>
              /\ cycle_count' = 1
              /\ run_log'.status = "completed"
              /\ run_log'.end_ts
              /\ runs'[current_run_filename] = run_log'
              /\ run_log'.commands = commands]_vars

\* C16: every step of the plan handed to the executor, a skipped or
\* unsupported one included, appends one CommandResult to the run's command
\* history: while the executor runs, the history has grown by one entry for
\* each step already dispatched, and by one per plan step when it returns.
C16_OneResultPerStep ==
    pc = "execute" => Len(run_log.commands) = done_cmds + step_i

\* C17: every version-control commit made during a run, by an edit step or by
\* the end-of-cycle commit, is recorded in the run log's commit list: once a
\* cycle has issued a commit and the run log has been updated for it, the
\* commit list of the run log and of the journal is not empty.
C17_CommitsRecorded ==
    /\ (pc \in {"check_ready", "loop", "finalize"} /\ cycle_git.cycle_commit) =>
           /\ run_log.commits # <<>>
           /\ runs[current_run_filename].commits # <<>>
    /\ (pc \in {"validate", "update_tree", "commit", "check_ready"}
            /\ cycle_git.edit_commit) =>
           /\ run_log.commits # <<>>
           /\ runs[current_run_filename].commits # <<>>

\* C22: within one run the deep planner is invoked once, before the first
\* cycle: the plan held by execute_ticket is set by that call and never
\* again, and it is the DeepPlan of the run log in every stage of every
\* cycle and of every journal snapshot that was written completely.
C22_DeepPlanOnce ==
    [][/\ complexity' # complexity =>
              (pc = "deep_plan" /\ pc' = "load_tree" /\ cycle_count = 0)
       /\ pc' \in RunningPcs \cup {"returned", "raised"} /\ run_log'.status # "uninit" =>
              run_log'.deep_plan = complexity'
       /\ \A f \in DOMAIN runs' :
              runs'[f].complete => runs'[f].deep_plan = complexity']_vars

\* a run of several cycles with a high-complexity plan, returned, whose
\* journal holds that plan
C22_Witness ==
    /\ pc = "returned"
    /\ cycle_count >= 2
    /\ complexity = "high"
    /\ runs[current_run_filename].deep_plan = "high"

\* C23: within a cycle the executor takes the steps strictly in plan order,
\* one at a time: a step is finished, with its result appended to the
\* returned list and to the run log and the journal written, before the next
\* step starts, so the returned list is in the order of the steps that
\* produced its results; the executor returns only after the last step.
C23_StepsInPlanOrder ==
    [][/\ (pc = "execute" /\ pc' = "execute") =>
              /\ plan' = plan
              /\ step_i' = step_i + 1
              /\ SubSeq(commands', 1, Len(commands)) = commands
              /\ \A k \in (Len(commands) + 1)..Len(commands') :
                     commands'[k].cmd \in {plan[step_i + 1], "description"}
              /\ SubSeq(run_log'.commands, 1, Len(run_log.commands)) = run_log.commands
              /\ Len(commands') > Len(commands) =>
                     /\ Len(run_log'.commands) = Len(run_log.commands) + 1
                     /\ run_log'.commands[Len(run_log'.commands)] =
                            commands'[Len(commands')]
              /\ runs'[current_run_filename] = run_log'
       /\ (pc = "execute" /\ pc' = "validate") =>
              /\ step_i = Len(plan)
              /\ commands' = commands]_vars

\* a plan of three steps of different kinds, all run: the three results are
\* in the order of the plan, in the returned list and in the journal
C23_Witness ==
    /\ pc = "execute"
    /\ plan = <<"search", "shell", "validate">>
    /\ step_i = 3
    /\ [k \in 1..3 |-> commands[k].cmd] = plan
    /\ runs[current_run_filename].commands = commands

\* C24: for any two successive complete journal writes of a run, the
\* command list of the earlier snapshot is a prefix of the later one's, and
\* so is the commit list: an entry once appended is never changed,
\* reordered or removed.
C24_JournalListsGrow ==
    [][\A f \in DOMAIN runs :
           (f \in DOMAIN runs' /\ runs[f].complete /\ runs'[f].complete) =>
               /\ Len(runs[f].commands) <= Len(runs'[f].commands)
               /\ SubSeq(runs'[f].commands, 1, Len(runs[f].commands)) = runs[f].commands
               /\ Len(runs[f].commits) <= Len(runs'[f].commits)
               /\ SubSeq(runs'[f].commits, 1, Len(runs[f].commits)) = runs[f].commits]_vars

\* the second cycle has journaled a result after the result of the first
C24_Witness ==
    /\ pc = "execute"
    /\ cycle_count = 2
    /\ step_i = 1
    /\ Len(commands) = 1
    /\ Len(runs[current_run_filename].commands) = 2
    /\ runs[current_run_filename].commands[2] = commands[1]
    /\ runs[current_run_filename].commands[1] # commands[1]

\* C25: when every call of a collaborator returns, execute_ticket
\* terminates (a run that is followed for fewer cycles than its budget
\* reaches the end of the cycles that are followed); the cycle counter never
\* exceeds max_cycles, no cycle starts once the readiness check was true,
\* and a run whose readiness check becomes true in the last permitted cycle
\* ends completed, not failed_max_cycles.
C25_Terminates ==
    /\ <>(\/ pc = "returned"
          \/ /\ pc = "loop" /\ ~ready
             /\ cycle_count = cycle_cap
             /\ cycle_cap < MaxCyclesOf(complexity))
    /\ [](complexity \in Complexities => cycle_count <= MaxCyclesOf(complexity))
    /\ [](pc \in LoopStages => ~ready)
    /\ []((pc = "returned" /\ ready) => run_log.status = "completed")

\* readiness became true in cycle 50 of 50
C25_Witness ==
    /\ pc = "returned"
    /\ ready
    /\ cycle_count = MaxCyclesOf(complexity)
    /\ cycle_count = 50
    /\ run_log.status = "completed"

\* C30: a plan step whose kind is none of search, edit, shell, git, validate
\* is skipped without error: the step loop moves to the next index of the
\* same plan and stays in the executor, nothing is appended to the returned
\* list, the run log (status, error, command list and all other fields) and
\* the journal files are as before, no collaborator (shell, edit engine,
\* git) is touched, and the steps after it are still taken (the process not
\* being killed at that point).
C30_UnknownKindSkipped ==
    [][(/\ pc = "execute"
        /\ step_i < Len(plan)
        /\ plan[step_i + 1] \notin {"search", "edit", "shell", "git", "validate"}
        /\ pc' # "killed") =>
           /\ pc' = "execute"
           /\ plan' = plan
           /\ step_i' = step_i + 1
           /\ commands' = commands
           /\ run_log' = run_log
           /\ runs' = runs
           /\ cycle_git' = cycle_git
           /\ UNCHANGED <<shellVars, editVars, callVars>>]_vars

\* an unknown step was skipped and the shell step after it ran: one result,
\* the shell step's, and no error in the run log
C30_Witness ==
    /\ pc = "execute"
    /\ Len(plan) = 2
    /\ plan[1] = "other"
    /\ plan[2] = "shell"
    /\ step_i = 2
    /\ Len(commands) = 1
    /\ commands[1].cmd = "shell"
    /\ Len(run_log.commands) = done_cmds + 1
    /\ run_log.status = "in_progress"
    /\ run_log.error.kind = "none"
    /\ run_log.current_step = 2

\* C34: the list of results the plan executor returns for a cycle is exactly
\* the sequence of entries it appended to the run log's command list during
\* that cycle (same results, same order), so the number of steps the commit
\* gate counts is the number of results journaled for the cycle.
C34_ReturnedIsJournaled ==
    pc \in {"execute", "validate", "update_tree", "commit"} =>
        /\ done_cmds <= Len(run_log.commands)
        /\ commands = SubSeq(run_log.commands, done_cmds + 1, Len(run_log.commands))

\* C35: in every complete journal snapshot of a run, current_step is at most
\* plan_steps: the step counter never exceeds the size of the plan recorded
\* next to it, also across cycles whose plans differ in length.
C35_StepWithinPlan ==
    \A f \in DOMAIN runs :
        runs[f].complete => runs[f].current_step <= runs[f].plan_steps

\* C36: when execute_ticket returns with status completed, the run log's
\* error field is empty (None): a completed run carries no error text left
\* over from an earlier step.
C36_CompletedHasNoError ==
    (pc = "returned" /\ run_log.status = "completed") => run_log.error.kind = "none"

\* C38: the end-of-cycle commit gate counts every result of the cycle
\* whatever its exit code: with a validation that compiled and passed, the
\* cycle's commit is attempted exactly when the cycle returned at least 3
\* results, so a cycle whose three results all failed (non-zero or -1 exit
\* code) passes the gate exactly as a cycle with three successful results.
C38_GateCountsEveryResult ==
    [][pc = "commit" =>
          LET gate == /\ validation.compiled /\ validation.passed
                      /\ Len(commands) >= MinStepsForCommit
          IN  /\ (pc' = "check_ready" /\ cycle_git' # cycle_git) => gate
              /\ gate => ENABLED (MaybeCommit /\ cycle_git'.cycle_commit)]_vars

\* three steps, every one failed, and the cycle's commit was issued
C38_Witness ==
    /\ pc = "check_ready"
    /\ Len(commands) = 3
    /\ \A k \in 1..3 : commands[k].exit_code # 0
    /\ \E k \in 1..3 : commands[k].exit_code = -1
    /\ cycle_git.cycle_commit

(***************************************************************************)
(* One ExecutiveWorker instance running two tickets one after the other    *)
(*                                                                         *)
(* self._current_run_filename is an attribute of the instance and outlives *)
(* the call that set it; the run id is a uuid4, different in every run.    *)
(* While the second call runs, call_locals holds what the first call left. *)
(***************************************************************************)
\* most plan steps of the two runs together
TwoRunSteps == 1

\* the uuid4 of the second run
SecondUuids == {"u2"}

NoArtifact == [NoLog EXCEPT !.complete = FALSE]

InitTwoRuns ==
    /\ ShellIdle /\ EditIdle /\ CallIdle
    /\ pc = "deep_plan"
    /\ ticket_id \in TicketIds
    /\ complexity = "-"
    /\ run_log = NoLog
    /\ current_run_filename = NoFile
    /\ runs = EmptyDir
    /\ cycle_count = 0
    /\ ready = FALSE
    /\ plan = <<>>
    /\ step_i = 0
    /\ commands = <<>>
    /\ validation = NoValidation
    /\ cycle_git = NoGit
    /\ propagated = NoExc
    /\ steps_left = TwoRunSteps /\ cycle_cap = 1
    /\ done_cmds = 0

\* the caller calls execute_ticket again on the same instance, after the
\* first call returned or raised
ExecuteNextTicket ==
    /\ pc \in {"returned", "raised"}
    /\ call_pc = "idle"
    /\ call_pc' = "second_run"
    /\ call_locals' = [ticket |-> ticket_id,
                       file |-> current_run_filename,
                       artifact |-> IF current_run_filename \in DOMAIN runs
                                    THEN runs[current_run_filename]
                                    ELSE NoArtifact]
    /\ pc' = "deep_plan"
    /\ ticket_id' \in TicketIds
    /\ complexity' = "-"
    /\ run_log' = NoLog
    /\ cycle_count' = 0 /\ ready' = FALSE
    /\ plan' = <<>> /\ step_i' = 0 /\ commands' = <<>>
    /\ validation' = NoValidation /\ cycle_git' = NoGit /\ propagated' = NoExc
    /\ steps_left' = IF current_run_filename \in DOMAIN runs
                     THEN TwoRunSteps - runs[current_run_filename].plan_steps
                     ELSE TwoRunSteps
    /\ cycle_cap' = 1 /\ done_cmds' = 0
    /\ UNCHANGED <<current_run_filename, runs, call_args, call_ret>>
    /\ UNCHANGED <<shellVars, editVars>>

\* run_log = self._initialize_run_log(ticket, deep_plan) of the first call
InitializeFirstRunLog ==
    /\ call_pc = "idle"
    /\ InitializeRunLog

\* run_log = self._initialize_run_log(ticket, deep_plan) of the second call
InitializeSecondRunLog ==
    /\ UNCHANGED <<shellVars, editVars, callVars>>
    /\ call_pc = "second_run"
    /\ pc = "init_log"
    /\ \E u \in SecondUuids :
         /\ run_log' = NewRunLog(ticket_id, u, complexity)
         /\ current_run_filename' = RunFilename(NewRunLog(ticket_id, u, complexity))
    /\ pc' = "first_write"
    /\ UNCHANGED <<ticket_id, complexity, runs, cycle_count, ready, plan,
                   step_i, commands, validation, cycle_git, propagated,
                   steps_left, cycle_cap, done_cmds>>

\* the runs followed here are too short for the commit gate to open, so
\* commit_and_push is not called and cannot raise
NextTwoRuns ==
    \/ AnalyzeRequirementsAndPlan
    \/ DeepPlanRaises
    \/ LoadTaskTree
    \/ LoadTaskTreeRaises
    \/ InitializeFirstRunLog
    \/ InitializeSecondRunLog
    \/ WriteInitialState
    \/ LoopEnter
    \/ LoopExit
    \/ SelectFocus
    \/ SelectFocusRaises
    \/ GeneratePlan
    \/ GeneratePlanRaises
    \/ StepCompletes
    \/ StepRaises
    \/ EditCommitRaises
    \/ StepSkipped
    \/ PlanReturn
    \/ ValidateChanges
    \/ ValidateChangesRaises
    \/ UpdateTaskTree
    \/ UpdateTaskTreeRaises
    \/ MaybeCommit
    \/ CheckReady
    \/ Finalize
    \/ Kill
    \/ KillDuringWrite
    \/ ExecuteNextTicket

SpecTwoRuns == InitTwoRuns /\ [][NextTwoRuns]_vars

\* C39: when one ExecutiveWorker instance runs two tickets one after the
\* other, no journal write of the second run targets the first run's file:
\* the current-run file name held on the instance is replaced before the
\* second run's first write, so the first run's artifact stays as the first
\* run left it.
C39_SecondRunSparesFirstArtifact ==
    /\ (call_pc = "second_run" /\ call_locals.file \in DOMAIN runs) =>
           runs[call_locals.file] = call_locals.artifact
    /\ (call_pc = "second_run" /\ pc \in RunningPcs \ {"first_write"}) =>
           /\ current_run_filename # call_locals.file
           /\ current_run_filename \in DOMAIN runs

\* the same ticket was run twice to completion: two artifacts, the first one
\* as the first run left it
C39_Witness ==
    /\ call_pc = "second_run"
    /\ pc = "returned"
    /\ ticket_id = call_locals.ticket
    /\ call_locals.artifact.status = "completed"
    /\ run_log.status = "completed"
    /\ Cardinality(DOMAIN runs) = 2
    /\ runs[call_locals.file] = call_locals.artifact
    /\ runs[current_run_filename] = run_log

(***************************************************************************)
(* The shell retry loop (ExecutiveWorker._execute_shell_with_recovery)     *)
(*                                                                         *)
(* A command line is the sequence of its words; the text a failed command  *)
(* printed is the set of the phrases the recovery code looks for in it.    *)
(***************************************************************************)
\* largest max_attempts a direct caller passes
MaxAttempts == 5

ShellCmds == {<<"mkdir", "a/b">>, <<"touch", "a/f">>, <<"cargo", "check">>,
              <<"npm", "test">>, <<"ls", "a/b">>}
\* words of the commands above that hold a "/"
SlashWords == {"a/b", "a/f"}
\* what a failing command returns: exit code and the phrases of its output
ShellFailures ==
    { [exit_code |-> 1, err |-> {"permission denied"}],
      [exit_code |-> 2, err |-> {"no such file or directory"}],
      [exit_code |-> 1, err |-> {"file exists"}],
      [exit_code |-> 101, err |-> {"error", "failed"}],
      [exit_code |-> -1, err |-> {"timeout"}] }
ShellExcs == {"FileNotFoundError", "ValueError"}

Last(seq) == seq[Len(seq)]
Words(cmd) == {cmd[i] : i \in 1..Len(cmd)}

\* str.replace(old, new) on command lines
RECURSIVE ReplaceAll(_, _, _)
ReplaceAll(cmd, old, new) ==
    IF Len(cmd) < Len(old) THEN cmd
    ELSE IF SubSeq(cmd, 1, Len(old)) = old
         THEN new \o ReplaceAll(SubSeq(cmd, Len(old) + 1, Len(cmd)), old, new)
         ELSE <<Head(cmd)>> \o ReplaceAll(Tail(cmd), old, new)

\* IntelligentErrorHandler.analyze_error returns a list of analyses
AnalyzeError(err, cmd) ==
    [type |-> "list", confidence |-> 0, suggestions |-> <<>>]

\* the fallback when no attempt was made at all
MaxAttemptsExceeded(cmd) ==
    [cmd |-> cmd, exit_code |-> -1, err |-> {"max attempts exceeded"},
     call |-> 0, raised |-> FALSE]

\* _apply_fallback_recovery
ApplyFallbackRecovery(cmd, failed_result, attempt) ==
    LET error_text == failed_result.err
        verbose == IF attempt >= 2 /\ Head(cmd) \in {"cargo", "npm", "yarn"}
                   THEN Append(cmd, "--verbose")
                   ELSE cmd
        cargo == IF "cargo" \in Words(cmd) /\ ({"error", "failed"} \cap error_text # {})
                 THEN IF attempt = 0 THEN <<"cargo", "clean", "&&">> \o cmd
                      ELSE IF attempt = 1
                           THEN ReplaceAll(cmd, <<"cargo", "check">>,
                                           <<"cargo", "check", "--all-features">>)
                           ELSE verbose
                 ELSE verbose
        exists == IF "file exists" \in error_text
                  THEN IF Head(cmd) = "mkdir"
                       THEN ReplaceAll(cmd, <<"mkdir">>, <<"mkdir", "-p">>)
                       ELSE IF Head(cmd) = "touch"
                            THEN <<"rm", "-f", Last(cmd), "&&">> \o cmd
                            ELSE cargo
                  ELSE cargo
        missing == IF /\ "no such file or directory" \in error_text
                      /\ "mkdir" \notin Words(cmd) /\ "touch" \notin Words(cmd)
                      /\ Words(cmd) \cap SlashWords # {}
                   THEN <<"mkdir", "-p", "$(dirname", Last(cmd), ")", "&&">> \o cmd
                   ELSE exists
    IN  IF "permission denied" \in error_text /\ Head(cmd) # "sudo"
        THEN <<"sudo">> \o cmd
        ELSE missing

\* the command of the next attempt (lines 863-886): reading .confidence of
\* a list raises AttributeError, which the except branch swallows
RecoveredCmd(cmd, result, attempt, enhanced) ==
    LET error_analysis == AnalyzeError(result.err, cmd)
    IN  IF /\ enhanced
           /\ error_analysis.type = "ErrorAnalysis"
           /\ error_analysis.confidence > 5
           /\ Len(error_analysis.suggestions) > 0
        THEN error_analysis.suggestions[
                 Min(attempt, Len(error_analysis.suggestions) - 1) + 1]
        ELSE ApplyFallbackRecovery(cmd, result, attempt)

\* for attempt in range(max_attempts)
InRangeInclusive(attempt, max_attempts) == attempt <= max_attempts

InRange(attempt, max_attempts) == attempt < max_attempts

\* if attempt >= max_attempts - 1: break
LastAttempt(attempt, max_attempts) == attempt >= max_attempts - 1

\* last_result = result
FirstResult(last_result, result) ==
    IF last_result = NoResult THEN result ELSE last_result

LastResult(last_result, result) == result

\* last_result or CommandResult(cmd=cmd, exit_code=-1, ...)
OrDefault(last_result, default) ==
    IF last_result = NoResult THEN default ELSE last_result

InitShell ==
    /\ CtrlIdle /\ EditIdle /\ ShellIdle /\ CallIdle

EnterShell(cmd, max_attempts, caller, enhanced) ==
    /\ sh_pc = "idle"
    /\ sh_pc' = "loop"
    /\ sh_caller' = caller
    /\ sh_enhanced' = enhanced
    /\ sh_max' = max_attempts
    /\ sh_attempt' = 0
    /\ sh_cmd' = cmd
    /\ sh_last' = NoResult
    /\ UNCHANGED <<sh_ret, sh_runs, sh_exc>>
    /\ UNCHANGED <<ctrlVars, editVars, callVars>>

\* the shell step of the plan executor
ShellStep ==
    \E cmd \in ShellCmds, enhanced \in BOOLEAN :
        EnterShell(cmd, ShellMaxAttempts, "plan_step", enhanced)

\* any other caller
ShellWithRecovery ==
    \E cmd \in ShellCmds, n \in 0..MaxAttempts, enhanced \in BOOLEAN :
        EnterShell(cmd, n, "direct", enhanced)

ShellResult(code, err) ==
    [cmd |-> sh_cmd, exit_code |-> code, err |-> err,
     call |-> Len(sh_runs) + 1, raised |-> FALSE]

\* self.shell.run(cmd) returns exit code 0
AttemptSucceeds ==
    /\ sh_pc = "loop"
    /\ InRange(sh_attempt, sh_max)
    /\ LET result == ShellResult(0, {})
       IN  /\ sh_runs' = Append(sh_runs, result)
           /\ sh_ret' = result
           /\ sh_pc' = "returned"
    /\ UNCHANGED <<sh_caller, sh_enhanced, sh_max, sh_attempt, sh_cmd, sh_last, sh_exc>>
    /\ UNCHANGED <<ctrlVars, editVars, callVars>>

\* self.shell.run(cmd) returns a non-zero exit code
AttemptFails ==
    /\ sh_pc = "loop"
    /\ InRange(sh_attempt, sh_max)
    /\ \E f \in ShellFailures :
         LET result == ShellResult(f.exit_code, f.err)
             last == LastResult(sh_last, result)
         IN  /\ sh_runs' = Append(sh_runs, result)
             /\ sh_last' = last
             /\ IF LastAttempt(sh_attempt, sh_max)
                THEN /\ sh_pc' = "returned"
                     /\ sh_ret' = OrDefault(last, MaxAttemptsExceeded(sh_cmd))
                     /\ UNCHANGED <<sh_cmd, sh_attempt>>
                ELSE /\ sh_cmd' = RecoveredCmd(sh_cmd, result, sh_attempt, sh_enhanced)
                     /\ sh_attempt' = sh_attempt + 1
                     /\ UNCHANGED <<sh_pc, sh_ret>>
    /\ UNCHANGED <<sh_caller, sh_enhanced, sh_max, sh_exc>>
    /\ UNCHANGED <<ctrlVars, editVars, callVars>>

\* a retry loop that takes an exception of the shell for a failed attempt
ShellRunRaisesRetried ==
    /\ sh_pc = "loop"
    /\ InRange(sh_attempt, sh_max)
    /\ \E e \in ShellExcs :
         /\ sh_exc' = e
         /\ sh_runs' = Append(sh_runs, [cmd |-> sh_cmd, exit_code |-> -1, err |-> {e},
                                        call |-> Len(sh_runs) + 1, raised |-> TRUE])
    /\ sh_attempt' = sh_attempt + 1
    /\ UNCHANGED <<sh_pc, sh_caller, sh_enhanced, sh_max, sh_cmd, sh_last, sh_ret>>
    /\ UNCHANGED <<ctrlVars, editVars, callVars>>

\* self.shell.run(cmd) raises: ShellRunner.run catches TimeoutExpired only
ShellRunRaises ==
    /\ sh_pc = "loop"
    /\ InRange(sh_attempt, sh_max)
    /\ \E e \in ShellExcs :
         /\ sh_exc' = e
         /\ sh_runs' = Append(sh_runs, [cmd |-> sh_cmd, exit_code |-> -1, err |-> {e},
                                        call |-> Len(sh_runs) + 1, raised |-> TRUE])
    /\ sh_pc' = "raised"
    /\ UNCHANGED <<sh_caller, sh_enhanced, sh_max, sh_attempt, sh_cmd, sh_last, sh_ret>>
    /\ UNCHANGED <<ctrlVars, editVars, callVars>>

\* the range is used up
LoopEnds ==
    /\ sh_pc = "loop"
    /\ ~InRange(sh_attempt, sh_max)
    /\ sh_pc' = "returned"
    /\ sh_ret' = OrDefault(sh_last, MaxAttemptsExceeded(sh_cmd))
    /\ UNCHANGED <<sh_caller, sh_enhanced, sh_max, sh_attempt, sh_cmd, sh_last,
                   sh_runs, sh_exc>>
    /\ UNCHANGED <<ctrlVars, editVars, callVars>>

NextShell ==
    \/ ShellStep
    \/ ShellWithRecovery
    \/ AttemptSucceeds
    \/ AttemptFails
    \/ ShellRunRaises
    \/ LoopEnds

SpecShell == InitShell /\ [][NextShell]_vars

\* the suggested_fixes of the analyses analyze_error returns for the output
\* of a failed command: mkdir, touch and ls take the generic branch, whose
\* analyses carry two fixes each; the output phrases of the commands that
\* take the rust and javascript branches match none of their patterns
SuggestedFixes(err, cmd) ==
    IF Head(cmd) \in {"cargo", "npm"} THEN <<>>
    ELSE (IF "permission denied" \in err
          THEN <<"Check file permissions", "Run with appropriate privileges">>
          ELSE <<>>)
         \o (IF "no such file or directory" \in err
             THEN <<"Check if the file exists", "Verify the path is correct">>
             ELSE <<>>)

(***************************************************************************)
(* Properties of the shell retry loop                                      *)
(***************************************************************************)
Successes == {i \in 1..Len(sh_runs) : ~sh_runs[i].raised /\ sh_runs[i].exit_code = 0}

\* C4: _execute_shell_with_recovery(cmd, max_attempts = n) invokes the shell
\* at most n times, whatever the commands return and however the command is
\* rewritten between attempts; the plan executor's shell step passes n = 5.
C4_AtMostMaxAttempts ==
    /\ Len(sh_runs) <= sh_max
    /\ sh_caller = "plan_step" => sh_max = ShellMaxAttempts

\* a shell step that used all five attempts, the command rewritten on the way
C4_Witness ==
    /\ sh_pc = "returned"
    /\ sh_caller = "plan_step"
    /\ Len(sh_runs) = ShellMaxAttempts
    /\ sh_ret.exit_code # 0
    /\ sh_runs[1].cmd # sh_runs[Len(sh_runs)].cmd

\* C5: the attempt that exits with 0 is the last invocation of the shell and
\* its result is what the function returns; when the function returns after
\* attempts none of which exited with 0, it returns the result of the last
\* attempt made.
C5_FirstSuccessOrLastFailure ==
    /\ \A i \in Successes :
          /\ i = Len(sh_runs)
          /\ sh_pc = "returned"
          /\ sh_ret = sh_runs[i]
    /\ (sh_pc = "returned" /\ Successes = {} /\ Len(sh_runs) > 0) =>
          sh_ret = sh_runs[Len(sh_runs)]

\* success on the third attempt or later, of a rewritten command
C5_Witness ==
    /\ sh_pc = "returned"
    /\ Len(sh_runs) >= 3
    /\ sh_ret.exit_code = 0
    /\ sh_ret.cmd # sh_runs[1].cmd
    /\ sh_ret.call = Len(sh_runs)


\* C20: a command that the retry loop runs on its own initiative (every
\* invocation after the first: an engine suggestion or a fallback rewrite of
\* the failed command) deletes nothing from the filesystem (rm -f, cargo
\* clean) unless the analysis of the failure it answers is an error
\* analysis of confidence at least 0.8 (8 tenths).
C20_NoUnbackedDestructiveRetry ==
    \A i \in 2..Len(sh_runs) :
        LET cmd == sh_runs[i].cmd
            failed == sh_runs[i - 1]
            analysis == AnalyzeError(failed.err, failed.cmd)
            destructive ==
                \E k \in 1..(Len(cmd) - 1) :
                    <<cmd[k], cmd[k + 1]>> \in {<<"rm", "-f">>, <<"cargo", "clean">>}
            backed == /\ sh_enhanced
                      /\ analysis.type = "ErrorAnalysis"
                      /\ analysis.confidence >= 8
        IN  destructive => backed

\* C28: when the attempt with index k fails and the error handler's analysis
\* of the failure offers n >= 1 suggestions, the next attempt runs
\* suggestion number min(k, n - 1) in place of the failed command.
C28_SuggestionByAttemptIndex ==
    \A i \in 2..Len(sh_runs) :
        LET failed == sh_runs[i - 1]
            k == i - 2
            fixes == SuggestedFixes(failed.err, failed.cmd)
            n == Len(fixes)
        IN  (sh_enhanced /\ n >= 1) =>
                sh_runs[i].cmd = <<fixes[Min(k, n - 1) + 1]>>

\* the attempts of the step after which the next command is the failed one
\* with "sudo" put in front
SudoPrefixings ==
    {i \in 1..(Len(sh_runs) - 1) : sh_runs[i + 1].cmd = <<"sudo">> \o sh_runs[i].cmd}

\* C33: _apply_fallback_recovery rewrites a command whose failure output
\* mentions 'permission denied' to the same command prefixed with 'sudo'
\* unless the command already starts with sudo, so over the attempts of one
\* shell step the prefix is added at most once; a failed cargo command (its
\* output naming an error or a failure, no earlier rule applying) is
\* rewritten to 'cargo clean && <cmd>' on attempt 0; and when no rule
\* matches, the command is returned unchanged.
C33_FallbackRules ==
    /\ \A i \in 2..Len(sh_runs) :
          LET failed == sh_runs[i - 1]
              cmd == failed.cmd
              err == failed.err
              attempt == i - 2
              next == sh_runs[i].cmd
              permission == "permission denied" \in err /\ Head(cmd) # "sudo"
              missing == /\ "no such file or directory" \in err
                         /\ "mkdir" \notin Words(cmd) /\ "touch" \notin Words(cmd)
                         /\ Words(cmd) \cap SlashWords # {}
              exists == "file exists" \in err /\ Head(cmd) \in {"mkdir", "touch"}
              cargo == /\ "cargo" \in Words(cmd)
                       /\ {"error", "failed"} \cap err # {}
                       /\ attempt \in {0, 1}
              verbose == attempt >= 2 /\ Head(cmd) \in {"cargo", "npm", "yarn"}
          IN  /\ permission => next = <<"sudo">> \o cmd
              /\ (cargo /\ attempt = 0 /\ ~permission /\ ~missing /\ ~exists) =>
                     next = <<"cargo", "clean", "&&">> \o cmd
              /\ ~(permission \/ missing \/ exists \/ cargo \/ verbose) => next = cmd
    /\ Cardinality(SudoPrefixings) <= 1

(***************************************************************************)
(* The shell step of the plan executor with the retry loop it calls        *)
(***************************************************************************)
\* the run log of a run whose first cycle planned one shell step
ShellStepLog == [NewRunLog("t-1", "u1", "low") EXCEPT !.plan_steps = 1]

InitShellStep ==
    /\ ShellIdle /\ EditIdle /\ CallIdle
    /\ pc = "execute" /\ ticket_id = "t-1" /\ complexity = "low"
    /\ run_log = ShellStepLog
    /\ current_run_filename = RunFilename(ShellStepLog)
    /\ runs = WritePartialRunLog(EmptyDir, RunFilename(ShellStepLog), ShellStepLog)
    /\ cycle_count = 1 /\ ready = FALSE
    /\ plan = <<"shell">> /\ step_i = 0 /\ commands = <<>>
    /\ validation = NoValidation /\ cycle_git = NoGit /\ propagated = NoExc
    /\ steps_left = 0 /\ cycle_cap = 1 /\ done_cmds = 0

\* res = self._execute_shell_with_recovery(cmd, max_attempts=5)
ShellStepCalls ==
    /\ pc = "execute"
    /\ step_i < Len(plan)
    /\ plan[step_i + 1] = "shell"
    /\ ShellStep

\* commands.append(res), then the logging block
ShellStepAppends ==
    /\ pc = "execute"
    /\ step_i < Len(plan)
    /\ sh_pc = "returned"
    /\ LET res == CommandResult("shell", sh_ret.exit_code, "")
           rl2 == LogAfterCommand(run_log, res, step_i)
       IN  /\ commands' = Append(commands, res)
           /\ run_log' = rl2
           /\ runs' = WritePartialRunLog(runs, current_run_filename, rl2)
    /\ step_i' = step_i + 1
    /\ UNCHANGED <<pc, ticket_id, complexity, current_run_filename, cycle_count,
                   ready, plan, validation, cycle_git, propagated, steps_left,
                   cycle_cap, done_cmds>>
    /\ UNCHANGED <<shellVars, editVars, callVars>>

\* the exception of the shell reaches the except branch of the step loop
ShellStepFails ==
    /\ pc = "execute"
    /\ step_i < Len(plan)
    /\ sh_pc = "raised"
    /\ LET res == CommandResult("description", -1, sh_exc)
           rl2 == LogStepError(run_log, res, sh_exc)
       IN  /\ commands' = Append(commands, res)
           /\ run_log' = rl2
           /\ runs' = WritePartialRunLog(runs, current_run_filename, rl2)
    /\ step_i' = step_i + 1
    /\ UNCHANGED <<pc, ticket_id, complexity, current_run_filename, cycle_count,
                   ready, plan, validation, cycle_git, propagated, steps_left,
                   cycle_cap, done_cmds>>
    /\ UNCHANGED <<shellVars, editVars, callVars>>

\* with max_attempts = 5 the loop is always left by a return, a break or an
\* exception, never by the end of its range
NextShellStep ==
    \/ ShellStepCalls
    \/ AttemptSucceeds
    \/ AttemptFails
    \/ ShellRunRaises
    \/ ShellStepAppends
    \/ ShellStepFails

SpecShellStep == InitShellStep /\ [][NextShellStep]_vars

\* C37: a shell step whose shell invocation itself raises (instead of
\* returning a non-zero exit code) is not retried: the invocation that raised
\* is the last one of the step, the exception leaves the retry loop on that
\* attempt with the command as it was (no recovery rewrites it, nothing is
\* returned), and the step is recorded once, with exit code -1, in the
\* returned list and in the run log.
C37_RaisedShellNotRetried ==
    /\ \A i \in 1..Len(sh_runs) :
          sh_runs[i].raised =>
              /\ i = Len(sh_runs)
              /\ sh_pc = "raised"
              /\ sh_attempt = i - 1
              /\ sh_cmd = sh_runs[i].cmd
              /\ sh_ret = NoResult
    /\ (sh_pc = "raised" /\ step_i = 1) =>
          /\ commands = <<CommandResult("description", -1, sh_exc)>>
          /\ run_log.commands = commands
          /\ runs[current_run_filename].commands = commands
          /\ run_log.status = "failed"

\* the third invocation of the step raised after two failed attempts, and
\* the step was recorded
C37_Witness ==
    /\ sh_pc = "raised"
    /\ Len(sh_runs) = 3
    /\ sh_runs[3].raised
    /\ sh_runs[3].cmd # sh_runs[1].cmd
    /\ step_i = 1
    /\ Len(commands) = 1
    /\ commands[1].exit_code = -1

(***************************************************************************)
(* The basic edit engine (EditEngine.apply_edits)                          *)
(*                                                                         *)
(* A file is the sequence of the units it holds: "a", "b", "q" are pieces  *)
(* of text, "CR" and "LF" the bytes 0x0D and 0x0A, "M" the text            *)
(* `pub mod m;` and "P" the text `pub mod ;` (a declaration without a      *)
(* module name).  Absent stands for a path with no file.                   *)
(***************************************************************************)
\* largest batch handed to apply_edits
MaxBatch == 2

EditPaths == {"a.txt", "lib.rs"}
FileContents == {Absent, <<>>, <<"a">>, <<"a", "CR", "LF">>}
Anchors == {<<>>, <<"a">>, <<"q">>}
Replacements == {<<>>, <<"b">>, <<"M">>, <<"P">>}
FileEdits == [path : EditPaths, original_substring : Anchors, replacement : Replacements]
Batches == UNION {[1..k -> FileEdits] : k \in 1..MaxBatch}

\* f.read() of a file opened in text mode: universal newlines
RECURSIVE ReadText(_)
ReadText(bytes) ==
    IF bytes = <<>> THEN <<>>
    ELSE IF Head(bytes) = "CR"
         THEN IF Len(bytes) >= 2 /\ bytes[2] = "LF"
              THEN <<"LF">> \o ReadText(SubSeq(bytes, 3, Len(bytes)))
              ELSE <<"LF">> \o ReadText(Tail(bytes))
         ELSE <<Head(bytes)>> \o ReadText(Tail(bytes))

\* f.write(text) of a file opened in text mode (os.linesep is "\n")
WriteText(text) == text

\* sub in content
Contains(content, sub) ==
    \E i \in 1..(Len(content) - Len(sub) + 1) :
        SubSeq(content, i, i + Len(sub) - 1) = sub

\* content.replace(old, new, 1)
RECURSIVE ReplaceFirst(_, _, _)
ReplaceFirst(content, old, new) ==
    IF Len(content) < Len(old) THEN content
    ELSE IF SubSeq(content, 1, Len(old)) = old
         THEN new \o SubSeq(content, Len(old) + 1, Len(content))
         ELSE <<Head(content)>> \o ReplaceFirst(Tail(content), old, new)

\* content.rstrip()
RECURSIVE RStrip(_)
RStrip(content) ==
    IF content # <<>> /\ Last(content) \in {"CR", "LF"}
    THEN RStrip(SubSeq(content, 1, Len(content) - 1))
    ELSE content

\* "pub mod" in e.replacement
HasPubMod(replacement) == Words(replacement) \cap {"M", "P"} # {}
\* re.search(r'pub mod (\w+);', e.replacement)
ModMatch(replacement) == "M" \in Words(replacement)

\* one iteration of the loop over the edits: whether it completes, the
\* backup it appends (none when it appends nothing) and the file it leaves
EditOutcome(files, e) ==
    IF files[e.path] = Absent
    THEN [ok |-> TRUE, backup |-> <<>>, bytes |-> WriteText(e.replacement)]
    ELSE LET content == ReadText(files[e.path])
             failed == [ok |-> FALSE, backup |-> content, bytes |-> files[e.path]]
             written(new_content) ==
                 [ok |-> TRUE, backup |-> content, bytes |-> WriteText(new_content)]
         IN  IF e.original_substring = <<>>
             THEN written(content \o e.replacement)
             ELSE IF ~Contains(content, e.original_substring)
                  THEN IF e.path = "lib.rs" /\ HasPubMod(e.replacement)
                       THEN IF ModMatch(e.replacement)
                            THEN IF ~Contains(content, <<"M">>)
                                 THEN written(RStrip(content) \o <<"LF", "M", "LF">>)
                                 ELSE written(content)
                            ELSE failed
                       ELSE failed
                  ELSE written(ReplaceFirst(content, e.original_substring,
                                            e.replacement))

\* the except branch: backups[::-1], an empty backup meaning a new file
RECURSIVE Rollback(_, _)
Rollback(files, backups) ==
    IF backups = <<>> THEN files
    ELSE LET b == Last(backups)
             rest == SubSeq(backups, 1, Len(backups) - 1)
         IN  IF b.old = <<>>
             THEN Rollback([files EXCEPT ![b.path] = Absent], rest)
             ELSE Rollback([files EXCEPT ![b.path] = WriteText(b.old)], rest)

InitEdit ==
    /\ CtrlIdle /\ ShellIdle /\ EditIdle /\ CallIdle

\* apply_edits(edits) is called on some workspace
ApplyEditsCalled ==
    /\ ed_pc = "idle"
    /\ \E files \in [EditPaths -> FileContents], edits \in Batches :
         /\ ed_files' = files
         /\ ed_files0' = files
         /\ ed_batch' = edits
    /\ ed_i' = 0
    /\ ed_backups' = <<>>
    /\ ed_pc' = "apply"
    /\ UNCHANGED <<ctrlVars, shellVars, callVars>>

\* the next edit of the batch is applied
EditApplied ==
    /\ ed_pc = "apply"
    /\ ed_i < Len(ed_batch)
    /\ LET e == ed_batch[ed_i + 1]
           out == EditOutcome(ed_files, e)
       IN  /\ out.ok
           /\ ed_files' = [ed_files EXCEPT ![e.path] = out.bytes]
           /\ ed_backups' = Append(ed_backups, [path |-> e.path, old |-> out.backup])
    /\ ed_i' = ed_i + 1
    /\ UNCHANGED <<ed_pc, ed_files0, ed_batch>>
    /\ UNCHANGED <<ctrlVars, shellVars, callVars>>

\* the next edit raises RuntimeError: rollback, then re-raise
EditFails ==
    /\ ed_pc = "apply"
    /\ ed_i < Len(ed_batch)
    /\ LET e == ed_batch[ed_i + 1]
           out == EditOutcome(ed_files, e)
           backups == Append(ed_backups, [path |-> e.path, old |-> out.backup])
       IN  /\ ~out.ok
           /\ ed_backups' = backups
           /\ ed_files' = Rollback(ed_files, backups)
    /\ ed_pc' = "raised"
    /\ UNCHANGED <<ed_i, ed_files0, ed_batch>>
    /\ UNCHANGED <<ctrlVars, shellVars, callVars>>

\* all edits applied
ApplyEditsReturns ==
    /\ ed_pc = "apply"
    /\ ed_i = Len(ed_batch)
    /\ ed_pc' = "returned"
    /\ UNCHANGED <<ed_files, ed_files0, ed_batch, ed_i, ed_backups>>
    /\ UNCHANGED <<ctrlVars, shellVars, callVars>>

NextEdit ==
    \/ ApplyEditsCalled
    \/ EditApplied
    \/ EditFails
    \/ ApplyEditsReturns

SpecEdit == InitEdit /\ [][NextEdit]_vars

(***************************************************************************)
(* Properties of the basic edit engine                                     *)
(***************************************************************************)
\* C10: when apply_edits raises, every file of the workspace has exactly the
\* bytes it had when apply_edits was called, and a path that held no file
\* holds none.
C10_RollbackRestoresWorkspace ==
    ed_pc = "raised" => ed_files = ed_files0

(***************************************************************************)
(* The readiness check (ExecutiveWorker.check_ready_to_submit)             *)
(*                                                                         *)
(* ValidationResult.compiled is Optional[bool] ("True", "False", "None");  *)
(* ValidationResult.tests is None, or a TestsSummary that passed or        *)
(* failed.                                                                 *)
(***************************************************************************)
CompiledFlags == {"True", "False", "None"}
TestsSummaries == {"None", "passed", "failed"}
\* what the external evaluator does with the completion question
EvaluatorAnswers == {"completed_true", "completed_false", "empty_content", "raises",
                     "unparsable", "no_completed_field"}

\* a semantic check that always asks the local heuristic
ValidateByHeuristicOnly(answer, heuristic) == heuristic

\* validate_against_success_criteria: the evaluator's verdict (an empty
\* message content is replaced by '{"completed": false, ...}' before it is
\* parsed), else the result of _basic_completion_heuristic
ValidateAgainstSuccessCriteria(answer, heuristic) ==
    IF answer = "completed_true" THEN TRUE
    ELSE IF answer \in {"completed_false", "empty_content"} THEN FALSE
    ELSE heuristic

\* if not validation.compiled: return False
CompileGate(compiled) == compiled = "True"

\* if validation.tests and not validation.tests.passed: return False
TestsGate(tests) == ~(tests # "None" /\ tests = "failed")

InitReady ==
    /\ CtrlIdle /\ ShellIdle /\ EditIdle
    /\ call_pc = "check_ready_to_submit"
    /\ call_args \in [compiled : CompiledFlags, tests : TestsSummaries,
                      answer : EvaluatorAnswers, heuristic : BOOLEAN]
    /\ call_locals = [semantic_called |-> FALSE]
    /\ call_ret = <<>>

\* one of the two technical checks returns False
ReadyRefusedTechnically ==
    /\ call_pc = "check_ready_to_submit"
    /\ ~(CompileGate(call_args.compiled) /\ TestsGate(call_args.tests))
    /\ call_ret' = FALSE
    /\ call_pc' = "returned"
    /\ UNCHANGED <<call_args, call_locals>>
    /\ UNCHANGED <<ctrlVars, shellVars, editVars>>

\* both technical checks pass: the semantic check decides
ReadySemanticCheck ==
    /\ call_pc = "check_ready_to_submit"
    /\ CompileGate(call_args.compiled) /\ TestsGate(call_args.tests)
    /\ call_locals' = [semantic_called |-> TRUE]
    /\ call_ret' = ValidateAgainstSuccessCriteria(call_args.answer, call_args.heuristic)
    /\ call_pc' = "returned"
    /\ UNCHANGED call_args
    /\ UNCHANGED <<ctrlVars, shellVars, editVars>>

NextReady ==
    \/ ReadyRefusedTechnically
    \/ ReadySemanticCheck

SpecReady == InitReady /\ [][NextReady]_vars

\* C12: check_ready_to_submit returns true exactly when compiled is true, the
\* tests summary is present and reports passed, and the semantic check
\* returns true.
C12_ReadyIsConjunction ==
    call_pc = "returned" =>
        (call_ret <=>
            /\ call_args.compiled = "True"
            /\ call_args.tests = "passed"
            /\ ValidateAgainstSuccessCriteria(call_args.answer, call_args.heuristic))

(***************************************************************************)
(* The deep planner (ExecutiveWorker.analyze_requirements_and_plan and the *)
(* four oracle calls of LLMClient)                                         *)
(*                                                                         *)
(* A list of requirement or risk strings is the record of its length n and *)
(* of kw: whether one of its strings contains "async" or "macro".          *)
(***************************************************************************)
\* longest requirement list and longest risk list the oracle answers with
MaxReqs == 16
MaxRisks == 4

StrList(n, kw) == [n |-> n, kw |-> kw]
StrLists(max) == {StrList(n, kw) : n \in 0..max, kw \in BOOLEAN} \ {StrList(0, TRUE)}
EmptyList == StrList(0, FALSE)

\* risk_keywords of the fallback of assess_complexity_and_risks
RiskKeywords == {"async", "macro", "integration", "complex", "performance", "concurrent"}

\* tickets: verb_lines are the lines of the description that hold one of
\* create / implement / add / build / develop, each with whether it mentions
\* async or macro; risk_words are the risk keywords in title and description
PlanTickets ==
    { [verb_lines |-> <<>>, risk_words |-> {}],
      [verb_lines |-> <<TRUE, FALSE>>, risk_words |-> {"async", "macro"}],
      [verb_lines |-> <<FALSE, FALSE, FALSE, FALSE, FALSE, FALSE,
                        FALSE, FALSE, FALSE, FALSE, FALSE, TRUE>>,
       risk_words |-> {"macro", "integration", "complex", "performance", "concurrent"}],
      [verb_lines |-> <<FALSE>>, risk_words |-> RiskKeywords] }

\* except branch of analyze_requirements: the verb lines, at most 10
FallbackRequirements(ticket) ==
    LET n == Min(Len(ticket.verb_lines), 10)
    IN  StrList(n, \E i \in 1..n : ticket.verb_lines[i])

\* except branch of define_success_criteria
FallbackCriteria == StrList(4, FALSE)

\* except branch of assess_complexity_and_risks: one risk for each keyword
\* of the ticket text, at most 5
FallbackRisks(ticket) ==
    StrList(Min(Cardinality(ticket.risk_words), 5),
            ticket.risk_words \cap {"async", "macro"} # {})

\* except branch of create_strategy
FallbackStrategy == "fallback_strategy"

\* whether the oracle call of the method is inside its try block
OracleGuardedButStrategy(method) == method # "create_strategy"

OracleGuarded(method) == TRUE

\* a rule that takes more than 16 requirements for epic
IsEpicAboveSixteen(requirements) == requirements.n > 16

\* len(requirements) > 15
IsEpic(requirements) == requirements.n > 15

\* a rule that takes more than 11 requirements for high
IsHighAboveEleven(requirements, risks) ==
    requirements.n > 11 \/ requirements.kw \/ risks.kw

\* len(requirements) > 10 or any("async" in ... or "macro" in ... for r in requirements + risks)
IsHigh(requirements, risks) ==
    requirements.n > 10 \/ requirements.kw \/ risks.kw

\* len(requirements) > 5 or len(risks) > 3
IsMedium(requirements, risks) == requirements.n > 5 \/ risks.n > 3

\* step 5 of analyze_requirements_and_plan: later assignments win
EstimateComplexity(requirements, risks) ==
    LET c1 == IF IsMedium(requirements, risks) THEN "medium" ELSE "low"
        c2 == IF IsHigh(requirements, risks) THEN "high" ELSE c1
    IN  IF IsEpic(requirements) THEN "epic" ELSE c2

NoPlanLocals ==
    [requirements |-> EmptyList, success_criteria |-> EmptyList, risks |-> EmptyList,
     strategy |-> "-", failed |-> {}]

InitPlan ==
    /\ CtrlIdle /\ ShellIdle /\ EditIdle
    /\ call_pc = "analyze_requirements"
    /\ call_args \in PlanTickets
    /\ call_locals = NoPlanLocals
    /\ call_ret = <<>>

\* an oracle call raised, or its answer is not JSON: the except branch of
\* the method, if the call is inside the try block
OracleFails(method, next_pc, fallback) ==
    /\ call_pc = method
    /\ IF OracleGuarded(method)
       THEN /\ call_locals' = fallback
            /\ call_pc' = next_pc
       ELSE /\ call_pc' = "raised"
            /\ UNCHANGED call_locals
    /\ UNCHANGED <<call_args, call_ret>>
    /\ UNCHANGED <<ctrlVars, shellVars, editVars>>

OracleAnswers(method, next_pc, locals) ==
    /\ call_pc = method
    /\ call_locals' = locals
    /\ call_pc' = next_pc
    /\ UNCHANGED <<call_args, call_ret>>
    /\ UNCHANGED <<ctrlVars, shellVars, editVars>>

\* 1) requirements: a JSON list, or JSON that is no list (taken as [])
AnalyzeRequirementsAnswers ==
    \E r \in StrLists(MaxReqs) :
        OracleAnswers("analyze_requirements", "define_success_criteria",
                      [call_locals EXCEPT !.requirements = r])

AnalyzeRequirementsFails ==
    OracleFails("analyze_requirements", "define_success_criteria",
                [call_locals EXCEPT !.requirements = FallbackRequirements(call_args),
                                    !.failed = @ \cup {"analyze_requirements"}])

\* 2) success criteria
DefineSuccessCriteriaAnswers ==
    \E c \in {EmptyList, StrList(3, FALSE)} :
        OracleAnswers("define_success_criteria", "assess_complexity_and_risks",
                      [call_locals EXCEPT !.success_criteria = c])

DefineSuccessCriteriaFails ==
    OracleFails("define_success_criteria", "assess_complexity_and_risks",
                [call_locals EXCEPT !.success_criteria = FallbackCriteria,
                                    !.failed = @ \cup {"define_success_criteria"}])

\* 3) risks
AssessRisksAnswers ==
    \E r \in StrLists(MaxRisks) :
        OracleAnswers("assess_complexity_and_risks", "create_strategy",
                      [call_locals EXCEPT !.risks = r])

AssessRisksFails ==
    OracleFails("assess_complexity_and_risks", "create_strategy",
                [call_locals EXCEPT !.risks = FallbackRisks(call_args),
                                    !.failed = @ \cup {"assess_complexity_and_risks"}])

\* 4) strategy: the oracle's text, or the default text when it is empty
CreateStrategyAnswers ==
    \E s \in {"oracle_strategy", "default_strategy"} :
        OracleAnswers("create_strategy", "estimate", [call_locals EXCEPT !.strategy = s])

CreateStrategyFails ==
    OracleFails("create_strategy", "estimate",
                [call_locals EXCEPT !.strategy = FallbackStrategy,
                                    !.failed = @ \cup {"create_strategy"}])

\* 5) estimate the complexity and return the DeepPlan
ReturnDeepPlan ==
    /\ call_pc = "estimate"
    /\ call_ret' = [requirements |-> call_locals.requirements,
                    success_criteria |-> call_locals.success_criteria,
                    risks |-> call_locals.risks,
                    strategy |-> call_locals.strategy,
                    estimated_complexity |->
                        EstimateComplexity(call_locals.requirements, call_locals.risks)]
    /\ call_pc' = "returned"
    /\ UNCHANGED <<call_args, call_locals>>
    /\ UNCHANGED <<ctrlVars, shellVars, editVars>>

NextPlan ==
    \/ AnalyzeRequirementsAnswers
    \/ AnalyzeRequirementsFails
    \/ DefineSuccessCriteriaAnswers
    \/ DefineSuccessCriteriaFails
    \/ AssessRisksAnswers
    \/ AssessRisksFails
    \/ CreateStrategyAnswers
    \/ CreateStrategyFails
    \/ ReturnDeepPlan

SpecPlan == InitPlan /\ [][NextPlan]_vars

(***************************************************************************)
(* Properties of the deep planner                                          *)
(***************************************************************************)
PlanKeyword == call_ret.requirements.kw \/ call_ret.risks.kw

\* C13: the complexity of the returned plan is epic for more than 15
\* requirements; otherwise high for more than 10 requirements or a keyword
\* in a requirement or risk; otherwise medium for more than 5 requirements
\* or more than 3 risks; otherwise low.
C13_ComplexityRule ==
    call_pc = "returned" =>
        call_ret.estimated_complexity =
            IF call_ret.requirements.n > 15 THEN "epic"
            ELSE IF call_ret.requirements.n > 10 \/ PlanKeyword THEN "high"
            ELSE IF call_ret.requirements.n > 5 \/ call_ret.risks.n > 3 THEN "medium"
            ELSE "low"

\* a plan that is high because of a keyword only
C13_Witness ==
    /\ call_pc = "returned"
    /\ call_ret.requirements.n = 2 /\ call_ret.risks.n = 1
    /\ ~call_ret.requirements.kw /\ call_ret.risks.kw
    /\ call_ret.estimated_complexity = "high"

\* C14 as stated: 11 requirements, at most 3 risks and no keyword give
\* medium, and 11 requirements give high only with a keyword.
C14_ElevenIsMedium ==
    (call_pc = "returned" /\ call_ret.requirements.n = 11) =>
        /\ (call_ret.risks.n <= 3 /\ ~PlanKeyword) =>
                call_ret.estimated_complexity = "medium"
        /\ call_ret.estimated_complexity = "high" => PlanKeyword

\* C14 amended: 11 requirements give high whatever the risks and keywords;
\* 6 to 10 requirements without a keyword give medium and high only with a
\* keyword.
C14_ElevenIsHigh ==
    call_pc = "returned" =>
        /\ call_ret.requirements.n = 11 => call_ret.estimated_complexity = "high"
        /\ call_ret.requirements.n \in 6..10 =>
              call_ret.estimated_complexity = IF PlanKeyword THEN "high" ELSE "medium"

\* 11 requirements, no risk, no keyword: high
C14_Witness ==
    /\ call_pc = "returned"
    /\ call_ret.requirements = StrList(11, FALSE)
    /\ call_ret.risks = EmptyList
    /\ call_ret.estimated_complexity = "high"

\* C18: the planner never raises because of an oracle, and in the DeepPlan
\* it returns each part whose oracle call failed is the local fallback of
\* that call, whatever the other three calls did.
C18_FallbackPerOracle ==
    /\ call_pc # "raised"
    /\ call_pc = "returned" =>
        /\ "analyze_requirements" \in call_locals.failed =>
              call_ret.requirements = FallbackRequirements(call_args)
        /\ "define_success_criteria" \in call_locals.failed =>
              call_ret.success_criteria = FallbackCriteria
        /\ "assess_complexity_and_risks" \in call_locals.failed =>
              call_ret.risks = FallbackRisks(call_args)
        /\ "create_strategy" \in call_locals.failed =>
              call_ret.strategy = FallbackStrategy
        /\ call_ret.estimated_complexity \in Complexities

\* only the risk oracle failed, on a ticket that mentions risk keywords
C18_Witness ==
    /\ call_pc = "returned"
    /\ call_locals.failed = {"assess_complexity_and_risks"}
    /\ call_ret.risks.n = 5
    /\ call_ret.requirements.n = 3
    /\ call_ret.strategy = "oracle_strategy"

(***************************************************************************)
(* Automatic recovery (IntelligentErrorHandler.auto_recover)               *)
(*                                                                         *)
(* The error output is the sequence of its lines, each named by the        *)
(* pattern it matches; the command is named by the branch of analyze_error *)
(* it selects.  A confidence is written in hundredths (0.8 is 80).         *)
(***************************************************************************)
\* lines of error output that are followed
MaxErrLines == 2

\* confidence >= 0.8
AutoConfidence == 80

ErrLines == {"ModuleNotFoundError", "SyntaxError", "Cannot find module",
             "permission denied", "no such file or directory", "command not found"}
CmdContexts == {"python", "node", "cargo", "gcc", "generic"}
ErrOutputs == UNION {[1..k -> ErrLines] : k \in 0..MaxErrLines}
SubprocessOutcomes == {"returncode_0", "returncode_1", "raises"}

ErrorAnalysis(error_type, language) == [error_type |-> error_type, language |-> language]

\* the lines of the output that match one pattern, in output order, parsed
MatchesOf(error_output, line, error_type, language) ==
    LET hit(l) == l = line
        hits == SelectSeq(error_output, hit)
    IN  [i \in 1..Len(hits) |-> ErrorAnalysis(error_type, language)]

\* analyze_error: the branch is chosen by the command; a language branch
\* walks its patterns in order and parses every match, the generic branch
\* reports each of its three conditions at most once
AnalyzeErrorOutput(error_output, command) ==
    LET has(line) == \E i \in 1..Len(error_output) : error_output[i] = line
        one(line, error_type) ==
            IF has(line) THEN <<ErrorAnalysis(error_type, "-")>> ELSE <<>>
    IN  IF command = "python"
        THEN MatchesOf(error_output, "SyntaxError", "syntax_error", "python")
             \o MatchesOf(error_output, "ModuleNotFoundError", "missing_dependency", "python")
        ELSE IF command = "node"
        THEN MatchesOf(error_output, "Cannot find module", "missing_dependency", "javascript")
        ELSE IF command \in {"cargo", "gcc"}
        THEN <<>>
        ELSE one("permission denied", "permission_error")
             \o one("no such file or directory", "file_not_found")
             \o one("command not found", "command_not_found")

RecoveryAction(action_type, cmds, confidence) ==
    [action_type |-> action_type, commands |-> cmds, confidence |-> confidence]

\* the actions suggest_recovery_actions appends for one analysis
ActionsFor(analysis) ==
    IF analysis.error_type = "missing_dependency"
    THEN IF analysis.language = "python"
         THEN <<RecoveryAction("install_dependency", <<"pip install m">>, 80)>>
         ELSE IF analysis.language = "javascript"
         THEN <<RecoveryAction("install_dependency", <<"npm install m">>, 80)>>
         ELSE <<>>
    ELSE IF analysis.error_type = "syntax_error"
    THEN <<RecoveryAction("fix_syntax", <<>>, 60)>>
    ELSE IF analysis.error_type = "file_not_found"
    THEN <<RecoveryAction("create_file", <<>>, 50)>>
    ELSE IF analysis.error_type = "command_not_found"
    THEN <<RecoveryAction("install_tool", <<>>, 70)>>
    ELSE <<>>

RECURSIVE SuggestRecoveryActions(_)
SuggestRecoveryActions(analyses) ==
    IF analyses = <<>> THEN <<>>
    ELSE ActionsFor(Head(analyses)) \o SuggestRecoveryActions(Tail(analyses))

\* an analysis and recovery that starts whatever the exit code was
NothingToRecoverNever(command_result) == FALSE

\* if command_result.exit_code == 0: return []
NothingToRecover(command_result) == command_result.exit_code = 0

\* if action.confidence >= 0.8 and action.action_type in ['install_dependency']
AutoExecutable(action) ==
    action.confidence >= AutoConfidence /\ action.action_type \in {"install_dependency"}

NoRecoverLocals ==
    [analysed |-> FALSE, actions |-> <<>>, i |-> 0, executed_actions |-> <<>>,
     subprocess_runs |-> <<>>]

InitRecover ==
    /\ CtrlIdle /\ ShellIdle /\ EditIdle
    /\ call_pc = "auto_recover"
    /\ call_args \in [exit_code : {0, 1}, cmd : CmdContexts, stderr : ErrOutputs]
    /\ call_locals = NoRecoverLocals
    /\ call_ret = <<>>

\* exit code 0: return []
RecoverReturnsEmpty ==
    /\ call_pc = "auto_recover"
    /\ NothingToRecover(call_args)
    /\ call_ret' = [executed_actions |-> <<>>]
    /\ call_pc' = "returned"
    /\ UNCHANGED <<call_args, call_locals>>
    /\ UNCHANGED <<ctrlVars, shellVars, editVars>>

\* analyses = self.analyze_error(stderr, cmd); actions = self.suggest_recovery_actions(analyses)
RecoverAnalyses ==
    /\ call_pc = "auto_recover"
    /\ ~NothingToRecover(call_args)
    /\ call_locals' =
          [call_locals EXCEPT
              !.analysed = TRUE,
              !.actions = SuggestRecoveryActions(
                              AnalyzeErrorOutput(call_args.stderr, call_args.cmd))]
    /\ call_pc' = "for_action"
    /\ UNCHANGED <<call_args, call_ret>>
    /\ UNCHANGED <<ctrlVars, shellVars, editVars>>

\* the action does not pass the test of the loop body
RecoverActionSkipped ==
    /\ call_pc = "for_action"
    /\ call_locals.i < Len(call_locals.actions)
    /\ ~AutoExecutable(call_locals.actions[call_locals.i + 1])
    /\ call_locals' = [call_locals EXCEPT !.i = @ + 1]
    /\ UNCHANGED <<call_pc, call_args, call_ret>>
    /\ UNCHANGED <<ctrlVars, shellVars, editVars>>

\* the commands subprocess.run is called with, given what each call does:
\* the loop over action.commands stops at the first call that raises
RECURSIVE RunsOf(_, _, _)
RunsOf(action, cmds, outcomes) ==
    IF cmds = <<>> THEN <<>>
    ELSE <<[action |-> action, cmd |-> Head(cmds)]>>
         \o (IF Head(outcomes) = "raises" THEN <<>>
             ELSE RunsOf(action, Tail(cmds), Tail(outcomes)))

\* executed_actions.append(action) for each call that returned code 0
RECURSIVE ExecutedOf(_, _, _)
ExecutedOf(action, cmds, outcomes) ==
    IF cmds = <<>> \/ Head(outcomes) = "raises" THEN <<>>
    ELSE (IF Head(outcomes) = "returncode_0" THEN <<action>> ELSE <<>>)
         \o ExecutedOf(action, Tail(cmds), Tail(outcomes))

\* the action passes the test: its commands are run with subprocess.run
RecoverActionExecuted ==
    /\ call_pc = "for_action"
    /\ call_locals.i < Len(call_locals.actions)
    /\ LET action == call_locals.actions[call_locals.i + 1]
       IN /\ AutoExecutable(action)
          /\ \E outcomes \in [1..Len(action.commands) -> SubprocessOutcomes] :
               call_locals' =
                  [call_locals EXCEPT
                      !.i = @ + 1,
                      !.subprocess_runs = @ \o RunsOf(action, action.commands, outcomes),
                      !.executed_actions = @ \o ExecutedOf(action, action.commands, outcomes)]
    /\ UNCHANGED <<call_pc, call_args, call_ret>>
    /\ UNCHANGED <<ctrlVars, shellVars, editVars>>

\* return executed_actions
RecoverReturns ==
    /\ call_pc = "for_action"
    /\ call_locals.i = Len(call_locals.actions)
    /\ call_ret' = [executed_actions |-> call_locals.executed_actions]
    /\ call_pc' = "returned"
    /\ UNCHANGED <<call_args, call_locals>>
    /\ UNCHANGED <<ctrlVars, shellVars, editVars>>

NextRecover ==
    \/ RecoverReturnsEmpty
    \/ RecoverAnalyses
    \/ RecoverActionSkipped
    \/ RecoverActionExecuted
    \/ RecoverReturns

SpecRecover == InitRecover /\ [][NextRecover]_vars

\* C19: auto_recover runs a command of a recovery action only if the action
\* has confidence at least 0.8 and type install_dependency, and every action
\* it reports as executed is such an action; for a command result with exit
\* code 0 nothing is analysed, nothing is run and the returned list is empty.
C19_OnlyConfidentInstalls ==
    /\ \A k \in 1..Len(call_locals.subprocess_runs) :
          /\ call_locals.subprocess_runs[k].action.confidence >= 80
          /\ call_locals.subprocess_runs[k].action.action_type = "install_dependency"
    /\ \A k \in 1..Len(call_locals.executed_actions) :
          /\ call_locals.executed_actions[k].confidence >= 80
          /\ call_locals.executed_actions[k].action_type = "install_dependency"
    /\ call_args.exit_code = 0 =>
          /\ ~call_locals.analysed
          /\ call_locals.subprocess_runs = <<>>
          /\ call_pc = "returned" => call_ret.executed_actions = <<>>

\* a failed python command whose output names a missing module and has a
\* syntax error: pip install was run, the fix_syntax action was passed over
C19_Witness ==
    /\ call_pc = "returned"
    /\ call_args.exit_code = 1
    /\ Len(call_locals.actions) = 2
    /\ \E k \in 1..2 : call_locals.actions[k].action_type = "fix_syntax"
    /\ Len(call_locals.subprocess_runs) = 1
    /\ call_locals.subprocess_runs[1].cmd = "pip install m"
    /\ Len(call_ret.executed_actions) = 1

(***************************************************************************)
(* The enhanced edit engine (EnhancedEditEngine.apply_edits)               *)
(*                                                                         *)
(* Files are sequences of units as for the basic engine.  The backup       *)
(* directory maps the name of a backup file to its bytes.                  *)
(***************************************************************************)
EnhancedPaths == {"d1/f.py", "d2/f.py", "g.py"}
EnhancedContents == {Absent, <<"a">>}
EnhancedEdits ==
    [path : EnhancedPaths, original_substring : Anchors, replacement : {<<"b">>}]
EnhancedBatches == UNION {[1..k -> EnhancedEdits] : k \in 1..MaxBatch}

\* target_path.name
BaseName(path) == IF path = "g.py" THEN "g.py" ELSE "f.py"
\* f"{target_path.name}.backup"
BackupName(path) == <<BaseName(path), ".backup">>
BackupNames == {BackupName(p) : p \in EnhancedPaths}
\* no backup was taken for the edit: the target did not exist
NoBackup == <<"None">>

\* _apply_single_edit: whether it completes and the bytes it leaves
ApplySingleEdit(files, e) ==
    IF files[e.path] = Absent
    THEN [ok |-> TRUE, bytes |-> WriteText(e.replacement)]
    ELSE LET content == ReadText(files[e.path])
         IN  IF e.original_substring = <<>>
             THEN [ok |-> TRUE, bytes |-> WriteText(content \o e.replacement)]
             ELSE IF ~Contains(content, e.original_substring)
                  THEN [ok |-> FALSE, bytes |-> files[e.path]]
                  ELSE [ok |-> TRUE,
                        bytes |-> WriteText(ReplaceFirst(content, e.original_substring,
                                                         e.replacement))]

\* the backup step of one edit: the backup directory after it, and the pair
\* appended to backups
BackupDirAfter(files, backup_dir, e) ==
    IF files[e.path] # Absent
    THEN [backup_dir EXCEPT ![BackupName(e.path)] = files[e.path]]
    ELSE backup_dir

BackupPair(files, e) ==
    [target_path |-> e.path,
     backup_path |-> IF files[e.path] # Absent THEN BackupName(e.path) ELSE NoBackup]

\* _rollback_edits: the pairs in the order they were appended
RECURSIVE RollbackEdits(_, _, _)
RollbackEdits(files, backup_dir, backups) ==
    IF backups = <<>> THEN files
    ELSE LET b == Head(backups)
             files1 ==
                 IF b.backup_path # NoBackup /\ backup_dir[b.backup_path] # Absent
                 THEN [files EXCEPT ![b.target_path] = backup_dir[b.backup_path]]
                 ELSE IF files[b.target_path] # Absent
                      THEN [files EXCEPT ![b.target_path] = Absent]
                      ELSE files
         IN  RollbackEdits(files1, backup_dir, Tail(backups))

InitEnhancedEdit ==
    /\ CtrlIdle /\ ShellIdle /\ EditIdle
    /\ call_pc = "apply_edits"
    /\ call_args \in [files : [EnhancedPaths -> EnhancedContents], edits : EnhancedBatches]
    /\ call_locals = [files |-> call_args.files, i |-> 0, backups |-> <<>>,
                      backup_dir |-> [n \in BackupNames |-> Absent]]
    /\ call_ret = <<>>

\* one iteration of the loop: backup, then the edit is applied
EnhancedEditApplied ==
    /\ call_pc = "apply_edits"
    /\ call_locals.i < Len(call_args.edits)
    /\ LET e == call_args.edits[call_locals.i + 1]
           out == ApplySingleEdit(call_locals.files, e)
       IN  /\ out.ok
           /\ call_locals' =
                 [call_locals EXCEPT
                     !.i = @ + 1,
                     !.backup_dir = BackupDirAfter(call_locals.files, @, e),
                     !.backups = Append(@, BackupPair(call_locals.files, e)),
                     !.files = [@ EXCEPT ![e.path] = out.bytes]]
    /\ UNCHANGED <<call_pc, call_args, call_ret>>
    /\ UNCHANGED <<ctrlVars, shellVars, editVars>>

\* the edit raises ValueError: self._rollback_edits(backups); raise e
EnhancedEditFails ==
    /\ call_pc = "apply_edits"
    /\ call_locals.i < Len(call_args.edits)
    /\ LET e == call_args.edits[call_locals.i + 1]
           out == ApplySingleEdit(call_locals.files, e)
           dir == BackupDirAfter(call_locals.files, call_locals.backup_dir, e)
           backups == Append(call_locals.backups, BackupPair(call_locals.files, e))
       IN  /\ ~out.ok
           /\ call_locals' =
                 [call_locals EXCEPT
                     !.backup_dir = dir,
                     !.backups = backups,
                     !.files = RollbackEdits(@, dir, backups)]
    /\ call_pc' = "raised"
    /\ UNCHANGED <<call_args, call_ret>>
    /\ UNCHANGED <<ctrlVars, shellVars, editVars>>

\* the loop is over: apply_edits returns None
EnhancedApplyEditsReturns ==
    /\ call_pc = "apply_edits"
    /\ call_locals.i = Len(call_args.edits)
    /\ call_pc' = "returned"
    /\ UNCHANGED <<call_args, call_locals, call_ret>>
    /\ UNCHANGED <<ctrlVars, shellVars, editVars>>

NextEnhancedEdit ==
    \/ EnhancedEditApplied
    \/ EnhancedEditFails
    \/ EnhancedApplyEditsReturns

SpecEnhancedEdit == InitEnhancedEdit /\ [][NextEnhancedEdit]_vars

\* C21: EnhancedEditEngine.apply_edits is a transaction: when it raises,
\* every path of the workspace holds what it held before the call (a file
\* the batch created is gone), also when two edits of the batch target the
\* same file or two files with the same base name; when it returns, every
\* edit of the batch was applied.
C21_BatchIsTransaction ==
    /\ call_pc = "raised" => call_locals.files = call_args.files
    /\ call_pc = "returned" => call_locals.i = Len(call_args.edits)

(***************************************************************************)
(* The edit step of the plan executor (basic editing) with the engine it   *)
(* calls and the version-control calls that follow                         *)
(***************************************************************************)
\* args.get("message"): a message of the step, or none
StepMessages == {"<none>", "fix: message of the step"}

\* msg = args.get("message", f"chore: apply edits for {ticket.ticket_id}")
CommitMessage(message) ==
    IF message = "<none>" THEN "chore: apply edits for t-1" ELSE message

InitEditStep ==
    /\ CtrlIdle /\ ShellIdle /\ EditIdle
    /\ call_pc = "edit_step"
    /\ call_args \in [message : StepMessages]
    /\ call_locals = [commands |-> <<>>, git |-> <<>>]
    /\ call_ret = <<>>

\* apply_edits returned: the result is appended, then git add -A and
\* git commit -m msg
EditStepCommits ==
    /\ call_pc = "edit_step"
    /\ ed_pc = "returned"
    /\ call_locals' =
          [call_locals EXCEPT
              !.commands = Append(@, CommandResult("edit_engine.apply_edits", 0, "")),
              !.git = @ \o <<<<"add_all">>, <<"commit", CommitMessage(call_args.message)>>>>]
    /\ call_pc' = "step_done"
    /\ UNCHANGED <<call_args, call_ret>>
    /\ UNCHANGED <<ctrlVars, shellVars, editVars>>

\* apply_edits raised: the except branch of the step loop appends the error
\* result
EditStepFails ==
    /\ call_pc = "edit_step"
    /\ ed_pc = "raised"
    /\ call_locals' =
          [call_locals EXCEPT
              !.commands = Append(@, CommandResult("description", -1, "RuntimeError"))]
    /\ call_pc' = "step_done"
    /\ UNCHANGED <<call_args, call_ret>>
    /\ UNCHANGED <<ctrlVars, shellVars, editVars>>

NextEditStep ==
    \/ ApplyEditsCalled
    \/ EditApplied
    \/ EditFails
    \/ ApplyEditsReturns
    \/ EditStepCommits
    \/ EditStepFails

SpecEditStep == InitEditStep /\ [][NextEditStep]_vars

\* C26: an edit step stages and commits, with the message of the step or
\* the default message, only after its batch was applied; when the batch
\* fails and is rolled back the step stages nothing and commits nothing, is
\* recorded as a failed result, and the workspace is as before the step.
C26_CommitOnlyAfterAppliedBatch ==
    /\ call_locals.git # <<>> =>
           /\ ed_pc = "returned"
           /\ call_locals.git =
                  <<<<"add_all">>, <<"commit", CommitMessage(call_args.message)>>>>
    /\ (call_pc = "step_done" /\ ed_pc = "raised") =>
           /\ call_locals.git = <<>>
           /\ Len(call_locals.commands) = 1
           /\ call_locals.commands[1].exit_code # 0
           /\ ed_files = ed_files0

(***************************************************************************)
(* Focus selection (ExecutiveWorker.pick_eoi_optional, LLMClient.choose_eoi)*)
(***************************************************************************)
\* most candidate paths the code index hands to the selector
MaxCandidates == 3

\* Ticket.eoi: None, an empty dict, or a pinned target
TicketEois == {"None", "{}", "pinned: src/a.py", "pinned: src/b.py"}
\* what the selector's reply is: JSON null, an object with label and path,
\* an object without them, text that is no JSON, or the request fails
SelectorReplies == {"null", "label and path", "other object", "no json", "raises"}
ChosenEoi == "chosen: label and path"

\* an exception of the completion request that leaves pick_eoi_optional
SelectorError == "selector request failed"

\* a controller that never takes the ticket's own target
TicketHasEoiNever(eoi) == FALSE

\* if ticket.eoi:
TicketHasEoi(eoi) == eoi \notin {"None", "{}"}

\* the part of choose_eoi after the reply has arrived
ParseChoice(reply, ticket_eoi) ==
    IF reply = "null" THEN "None"
    ELSE IF reply = "label and path" THEN ChosenEoi
    ELSE ticket_eoi

InitFocus ==
    /\ CtrlIdle /\ ShellIdle /\ EditIdle
    /\ call_pc = "pick_eoi_optional"
    /\ call_args \in [eoi : TicketEois, use_enhanced : BOOLEAN,
                      candidates : 0..MaxCandidates, reply : SelectorReplies]
    /\ call_locals = [index |-> "-", asked |-> FALSE]
    /\ call_ret = <<>>

\* if ticket.eoi: return ticket.eoi
ReturnTicketEoi ==
    /\ call_pc = "pick_eoi_optional"
    /\ TicketHasEoi(call_args.eoi)
    /\ call_ret' = [eoi |-> call_args.eoi]
    /\ call_pc' = "returned"
    /\ UNCHANGED <<call_args, call_locals>>
    /\ UNCHANGED <<ctrlVars, shellVars, editVars>>

\* candidates = (self.enhanced_code or self.code).candidate_eoi_paths(limit=25)
GatherCandidates ==
    /\ call_pc = "pick_eoi_optional"
    /\ ~TicketHasEoi(call_args.eoi)
    /\ call_locals' = [call_locals EXCEPT
                          !.index = IF call_args.use_enhanced THEN "enhanced_code"
                                    ELSE "code"]
    /\ call_pc' = "choose_eoi"
    /\ UNCHANGED <<call_args, call_ret>>
    /\ UNCHANGED <<ctrlVars, shellVars, editVars>>

\* choose_eoi: if not candidates: return ticket.eoi
ChooseWithoutCandidates ==
    /\ call_pc = "choose_eoi"
    /\ call_args.candidates = 0
    /\ call_ret' = [eoi |-> call_args.eoi]
    /\ call_pc' = "returned"
    /\ UNCHANGED <<call_args, call_locals>>
    /\ UNCHANGED <<ctrlVars, shellVars, editVars>>

\* the selector is asked and its reply is parsed
SelectorReplied ==
    /\ call_pc = "choose_eoi"
    /\ call_args.candidates > 0
    /\ call_args.reply # "raises"
    /\ call_locals' = [call_locals EXCEPT !.asked = TRUE]
    /\ call_ret' = [eoi |-> ParseChoice(call_args.reply, call_args.eoi)]
    /\ call_pc' = "returned"
    /\ UNCHANGED call_args
    /\ UNCHANGED <<ctrlVars, shellVars, editVars>>

\* the request to the selector raises: nothing in choose_eoi or
\* pick_eoi_optional catches it
SelectorRaised ==
    /\ call_pc = "choose_eoi"
    /\ call_args.candidates > 0
    /\ call_args.reply = "raises"
    /\ call_locals' = [call_locals EXCEPT !.asked = TRUE]
    /\ call_ret' = [exc |-> SelectorError]
    /\ call_pc' = "raised"
    /\ UNCHANGED call_args
    /\ UNCHANGED <<ctrlVars, shellVars, editVars>>

NextFocus ==
    \/ ReturnTicketEoi
    \/ GatherCandidates
    \/ ChooseWithoutCandidates
    \/ SelectorReplied
    \/ SelectorRaised

SpecFocus == InitFocus /\ [][NextFocus]_vars

\* C27: in each cycle the controller asks the external selector for a focus
\* target, and the ticket's pinned target is used only as the fallback, when
\* the selector yields no target.
C27_SelectorFirst ==
    call_pc = "returned" =>
        /\ call_locals.asked
        /\ call_ret.eoi = IF call_args.reply = "label and path"
                          THEN ChosenEoi ELSE call_args.eoi

\* C27, amended: a ticket with a pinned target gets that target and the
\* selector is not asked; for a ticket without one the selector is asked
\* when the code index offers a candidate, and its choice is the focus:
\* the chosen target, none for a null reply, and the ticket's (empty)
\* target for any other reply; without candidates the ticket's (empty)
\* target is the focus.
C27_PinnedTargetFirst ==
    call_pc = "returned" =>
        IF call_args.eoi \in {"pinned: src/a.py", "pinned: src/b.py"}
        THEN /\ ~call_locals.asked
             /\ call_ret.eoi = call_args.eoi
        ELSE /\ call_locals.asked <=> call_args.candidates > 0
             /\ call_ret.eoi =
                   IF call_args.candidates > 0 /\ call_args.reply = "label and path"
                   THEN ChosenEoi
                   ELSE IF call_args.candidates > 0 /\ call_args.reply = "null"
                        THEN "None"
                        ELSE call_args.eoi

\* a pinned ticket whose selector would have chosen something else
C27_Witness ==
    /\ call_pc = "returned"
    /\ call_args.eoi = "pinned: src/a.py"
    /\ call_args.candidates > 0
    /\ call_args.reply = "label and path"
    /\ call_ret.eoi = "pinned: src/a.py"

(***************************************************************************)
(* The validate step of the plan executor and ShellRunner.run              *)
(*                                                                         *)
(* A validate command is the sequence of its sub-commands, each named by   *)
(* the exit code it would end with, and the operator that chains them.     *)
(***************************************************************************)
\* most sub-commands chained in one validate command
MaxSubCmds == 3

SubExitCodes == {0, 1, 2}
ChainOps == {"&&", ";"}
ValidateCmds == UNION {[1..k -> SubExitCodes] : k \in 1..MaxSubCmds}

\* the exit code of the shell that runs the chain
RECURSIVE ChainExitCode(_, _)
ChainExitCode(subs, op) ==
    IF Len(subs) = 1 THEN subs[1]
    ELSE IF op = "&&" /\ subs[1] # 0 THEN subs[1]
    ELSE ChainExitCode(Tail(subs), op)

\* ShellRunner.run(cmd): one subprocess.run for the whole command line, with
\* shell=True when the line holds an operator
ShellRun(subs, op) ==
    [cmd |-> [subs |-> subs, op |-> op],
     shell |-> Len(subs) > 1,
     exit_code |-> ChainExitCode(subs, op)]

InitValidateStep ==
    /\ CtrlIdle /\ ShellIdle /\ EditIdle
    /\ call_pc = "validate_step"
    /\ call_args \in [subs : ValidateCmds, op : ChainOps, enhanced : BOOLEAN]
    /\ call_locals = [invocations |-> <<>>, commands |-> <<>>, analysed |-> FALSE]
    /\ call_ret = <<>>

\* res = self.shell.run(cmd)
ValidateCommandRun ==
    /\ call_pc = "validate_step"
    /\ call_locals' = [call_locals EXCEPT
                          !.invocations = Append(@, ShellRun(call_args.subs, call_args.op))]
    /\ call_pc' = "ran"
    /\ UNCHANGED <<call_args, call_ret>>
    /\ UNCHANGED <<ctrlVars, shellVars, editVars>>

\* else: commands.append(res)
ValidateResultAppended ==
    /\ call_pc = "ran"
    /\ LET res == call_locals.invocations[1]
       IN  /\ ~(res.exit_code # 0 /\ call_args.enhanced)
           /\ call_locals' = [call_locals EXCEPT !.commands = Append(@, res)]
    /\ call_pc' = "step_done"
    /\ UNCHANGED <<call_args, call_ret>>
    /\ UNCHANGED <<ctrlVars, shellVars, editVars>>

\* the failure is analysed: analyze_error returns a list, reading its
\* error_type raises, and the except branch appends the original result
ValidateAnalysisFails ==
    /\ call_pc = "ran"
    /\ LET res == call_locals.invocations[1]
       IN  /\ res.exit_code # 0 /\ call_args.enhanced
           /\ call_locals' = [call_locals EXCEPT !.commands = Append(@, res),
                                                 !.analysed = TRUE]
    /\ call_pc' = "step_done"
    /\ UNCHANGED <<call_args, call_ret>>
    /\ UNCHANGED <<ctrlVars, shellVars, editVars>>

NextValidateStep ==
    \/ ValidateCommandRun
    \/ ValidateResultAppended
    \/ ValidateAnalysisFails

SpecValidateStep == InitValidateStep /\ [][NextValidateStep]_vars

\* C29: a validate step whose command chains several sub-commands runs each
\* sub-command as its own shell invocation and records the outcome of each,
\* so that a failure is attributed to the sub-command that failed.
C29_SubCommandsRunSeparately ==
    call_pc = "step_done" =>
        /\ Len(call_locals.invocations) = Len(call_args.subs)
        /\ Len(call_locals.commands) = Len(call_args.subs)
        /\ \A k \in 1..Len(call_args.subs) :
               /\ call_locals.invocations[k].cmd.subs = <<call_args.subs[k]>>
               /\ call_locals.commands[k].exit_code = call_args.subs[k]

(***************************************************************************)
(* Semantic validation (ExecutiveWorker.validate_against_success_criteria  *)
(* and _basic_completion_heuristic)                                        *)
(*                                                                         *)
(* A string is the sequence of its characters.  A requirement is a string  *)
(* of words separated by blanks; the workspace is the list of the paths    *)
(* that a listing of it yields.                                            *)
(***************************************************************************)
\* most requirements of a deep plan
MaxHeurReqs == 3

ReqStrings == {<<"a", "d", "d">>,
               <<"a", "d", "d", " ", "A", "u", "t", "h">>,
               <<"c", "a", "c", "h", "e">>}
RequirementLists == UNION {[1..k -> ReqStrings] : k \in 0..MaxHeurReqs}

WorkspacePaths == {<<"s", "/", "a", "u", "t", "h">>, <<"s", "/", "A", "d", "d">>}
WorkspaceListings ==
    {<<>>} \cup {<<p>> : p \in WorkspacePaths}
           \cup {l \in [1..2 -> WorkspacePaths] : l[1] # l[2]}

\* str.lower()
Lower(str) == [i \in 1..Len(str) |-> IF str[i] = "A" THEN "a" ELSE str[i]]

\* the words of str.split()
SplitWords(str) ==
    LET IsWord(i, j) ==
            /\ i <= j
            /\ \A k \in i..j : str[k] # " "
            /\ i = 1 \/ str[i - 1] = " "
            /\ j = Len(str) \/ str[j + 1] = " "
    IN  {SubSeq(str, w[1], w[2]) :
            w \in {v \in (1..Len(str)) \X (1..Len(str)) : IsWord(v[1], v[2])}}

\* " ".join([f.lower() for f in files])
RECURSIVE JoinLower(_)
JoinLower(files) ==
    IF Len(files) = 0 THEN <<>>
    ELSE IF Len(files) = 1 THEN Lower(files[1])
    ELSE Lower(files[1]) \o <<" ">> \o JoinLower(Tail(files))

\* the argument of both glob_files calls
GlobPattern == <<"*", "*", "/", "*">>

\* CodebaseUtilities.glob_files(patterns): `for pat in patterns` takes the
\* argument one element at a time, of a string one character at a time, and
\* Path.rglob refuses the pattern "/"
RECURSIVE BasicGlobFiles(_, _)
BasicGlobFiles(patterns, listing) ==
    IF Len(patterns) = 0 THEN [raised |-> FALSE, files |-> <<>>]
    ELSE IF patterns[1] = "/" THEN [raised |-> TRUE, files |-> <<>>]
    ELSE LET rest == BasicGlobFiles(Tail(patterns), listing)
         IN  [raised |-> rest.raised,
              files |-> IF rest.raised THEN <<>> ELSE listing \o rest.files]

\* EnhancedCodebaseUtils.glob_files(pattern): one glob of the whole pattern
EnhancedGlobFiles(pattern, listing) == [raised |-> FALSE, files |-> listing]

\* files = self.enhanced_code.glob_files("**/*") or self.code.glob_files("**/*")
GlobFiles(enhanced, listing, fs_ok) ==
    IF ~fs_ok THEN [raised |-> TRUE, files |-> <<>>]
    ELSE IF enhanced THEN EnhancedGlobFiles(GlobPattern, listing)
    ELSE BasicGlobFiles(GlobPattern, listing)

\* the requirements with a term longer than 3 characters in the content
RequirementsMet(requirements, workspace_content) ==
    Cardinality({k \in 1..Len(requirements) :
                    \E term \in SplitWords(Lower(requirements[k])) :
                        Len(term) > 3 /\ Contains(workspace_content, term)})

\* _basic_completion_heuristic: requirements_met / total_requirements >= 0.5
\* is 2 * requirements_met >= total_requirements; an exception of the
\* listing leaves requirements_met at 0
BasicCompletionHeuristic(requirements, glob) ==
    IF Len(requirements) = 0 THEN TRUE
    ELSE LET requirements_met ==
                 IF glob.raised THEN 0
                 ELSE RequirementsMet(requirements, JoinLower(glob.files))
         IN  2 * requirements_met >= Len(requirements)

InitSemantic ==
    /\ CtrlIdle /\ ShellIdle /\ EditIdle
    /\ call_pc = "validate_against_success_criteria"
    /\ call_args \in [enhanced : BOOLEAN, summary : {"returns", "raises"},
                      answer : EvaluatorAnswers, requirements : RequirementLists,
                      listing : WorkspaceListings, fs_ok : BOOLEAN]
    /\ call_locals = [asked |-> FALSE, heuristic_called |-> FALSE, listed |-> FALSE]
    /\ call_ret = <<>>

\* workspace_summary raises: the except branch, then the fallback
SemanticSummaryRaises ==
    /\ call_pc = "validate_against_success_criteria"
    /\ call_args.summary = "raises"
    /\ call_pc' = "heuristic"
    /\ UNCHANGED <<call_args, call_locals, call_ret>>
    /\ UNCHANGED <<ctrlVars, shellVars, editVars>>

\* the evaluator's answer is a dict with "completed": return completed
SemanticVerdict ==
    /\ call_pc = "validate_against_success_criteria"
    /\ call_args.summary = "returns"
    /\ call_args.answer \in {"completed_true", "completed_false", "empty_content"}
    /\ call_locals' = [call_locals EXCEPT !.asked = TRUE]
    /\ call_ret' = ValidateAgainstSuccessCriteria(call_args.answer, FALSE)
    /\ call_pc' = "returned"
    /\ UNCHANGED call_args
    /\ UNCHANGED <<ctrlVars, shellVars, editVars>>

\* the request raises, json.loads raises, or the parsed answer is not a dict
\* with "completed": fall through to the fallback
SemanticEvaluatorFails ==
    /\ call_pc = "validate_against_success_criteria"
    /\ call_args.summary = "returns"
    /\ call_args.answer \in {"raises", "unparsable", "no_completed_field"}
    /\ call_locals' = [call_locals EXCEPT !.asked = TRUE]
    /\ call_pc' = "heuristic"
    /\ UNCHANGED <<call_args, call_ret>>
    /\ UNCHANGED <<ctrlVars, shellVars, editVars>>

\* if total_requirements == 0: return True
HeuristicNoRequirements ==
    /\ call_pc = "heuristic"
    /\ Len(call_args.requirements) = 0
    /\ call_locals' = [call_locals EXCEPT !.heuristic_called = TRUE]
    /\ call_ret' = BasicCompletionHeuristic(
                       call_args.requirements,
                       GlobFiles(call_args.enhanced, call_args.listing, call_args.fs_ok))
    /\ call_pc' = "returned"
    /\ UNCHANGED call_args
    /\ UNCHANGED <<ctrlVars, shellVars, editVars>>

\* the workspace is listed and the requirements with evidence are counted
HeuristicCounts ==
    /\ call_pc = "heuristic"
    /\ Len(call_args.requirements) > 0
    /\ LET glob == GlobFiles(call_args.enhanced, call_args.listing, call_args.fs_ok)
       IN  /\ call_locals' = [call_locals EXCEPT !.heuristic_called = TRUE,
                                                 !.listed = ~glob.raised]
           /\ call_ret' = BasicCompletionHeuristic(call_args.requirements, glob)
    /\ call_pc' = "returned"
    /\ UNCHANGED call_args
    /\ UNCHANGED <<ctrlVars, shellVars, editVars>>

NextSemantic ==
    \/ SemanticSummaryRaises
    \/ SemanticVerdict
    \/ SemanticEvaluatorFails
    \/ HeuristicNoRequirements
    \/ HeuristicCounts

SpecSemantic == InitSemantic /\ [][NextSemantic]_vars

(***************************************************************************)
(* Properties of the semantic validation                                   *)
(***************************************************************************)
\* the evaluator was reached and answered with a dict holding "completed"
WellFormedVerdict ==
    /\ call_args.summary = "returns"
    /\ call_args.answer \in {"completed_true", "completed_false"}

\* the evaluator was reached and its message content was empty
EmptyAnswer ==
    /\ call_args.summary = "returns"
    /\ call_args.answer = "empty_content"

HeuristicResult ==
    BasicCompletionHeuristic(
        call_args.requirements,
        GlobFiles(call_args.enhanced, call_args.listing, call_args.fs_ok))

\* C31 as stated: validate_against_success_criteria returns the evaluator's
\* verdict when the evaluator answers with a well-formed result, and in
\* every other case returns the result of the local heuristic; it never
\* raises.
C31_VerdictOrHeuristic ==
    /\ call_pc \in {"validate_against_success_criteria", "heuristic", "returned"}
    /\ call_pc = "returned" =>
           IF WellFormedVerdict
           THEN call_ret = (call_args.answer = "completed_true")
           ELSE call_ret = HeuristicResult

\* C31 amended: validate_against_success_criteria returns the evaluator's
\* verdict when the evaluator answers with a well-formed result, returns
\* false without consulting the heuristic when the evaluator's answer is
\* empty, and in every other case (the workspace summary or the evaluator
\* raises, the answer cannot be parsed or lacks the completed field) returns
\* the result of the local heuristic; it never raises.
C31_VerdictEmptyOrHeuristic ==
    /\ call_pc \in {"validate_against_success_criteria", "heuristic", "returned"}
    /\ call_pc = "returned" =>
           /\ call_ret \in BOOLEAN
           /\ IF WellFormedVerdict
              THEN /\ call_ret = (call_args.answer = "completed_true")
                   /\ ~call_locals.heuristic_called
              ELSE IF EmptyAnswer
              THEN /\ call_ret = FALSE
                   /\ ~call_locals.heuristic_called
              ELSE /\ call_locals.heuristic_called
                   /\ call_ret = HeuristicResult

\* the evaluator's answer is empty and the heuristic, had it been asked,
\* would have said true: the call returns false
C31_Witness ==
    /\ call_pc = "returned"
    /\ EmptyAnswer
    /\ call_locals.asked
    /\ HeuristicResult
    /\ call_ret = FALSE

\* the evaluator raises and the heuristic answers from the workspace listing
C31_FallbackWitness ==
    /\ call_pc = "returned"
    /\ call_args.answer = "raises"
    /\ call_locals.asked /\ call_locals.listed
    /\ call_ret = TRUE

\* C32: _basic_completion_heuristic returns true when the deep plan has no
\* requirements; otherwise, the workspace being listable, it returns true
\* exactly when at least half of the requirements have some term longer than
\* 3 characters occurring in the workspace file names; and when listing the
\* workspace files fails it returns false.
C32_HalfOfRequirementsEvidenced ==
    (call_pc = "returned" /\ call_locals.heuristic_called) =>
        IF Len(call_args.requirements) = 0 THEN call_ret = TRUE
        ELSE IF ~call_args.fs_ok THEN call_ret = FALSE
        ELSE call_ret <=>
                 2 * RequirementsMet(call_args.requirements,
                                     JoinLower(call_args.listing))
                     >= Len(call_args.requirements)

====
